---------------------------- MODULE Spec2Model ----------------------------
(***************************************************************************)
(* Teacher certification objectives pipeline (teach-cert-pro).             *)
(*                                                                         *)
(* The module models                                                       *)
(*   - ObjectivesOrchestrator.run_full_pipeline / process_state            *)
(*     (scripts/main.py) over the SQLite store of scripts/database.py,     *)
(*   - InferenceEngine.infer_objectives (scripts/inference.py),            *)
(*   - ValidationEngine.validate_objective (scripts/validation.py).        *)
(*                                                                         *)
(* Conventions                                                             *)
(*   - A Python str is a TLA+ string.  Where the code looks inside a str   *)
(*     (split(), lower(), "x in s") the string is read through Chars(s),   *)
(*     its sequence of characters.                                         *)
(*   - Python None is the distinguished value None.                        *)
(*   - A Python dict is a function from its keys; d.get(k, default) is     *)
(*     Get(d, k, default).                                                 *)
(*   - Confidence values are kept in hundredths (0.75 is 75).              *)
(*   - Every method of ObjectivesDatabase either completes or raises       *)
(*     without having changed the store.                                   *)
(***************************************************************************)
EXTENDS Integers, Sequences, FiniteSets, TLC

VARIABLES
    pc,              \* position of run_full_pipeline / process_state
    units,           \* states_to_process of the running run_full_pipeline
    fault,           \* the store fault the environment injects in this run
    seen,            \* calls of fault.op made so far
    down,            \* TRUE once a persistent fault has hit: the store stays unusable
    i,               \* index of the unit being processed (enumerate, 1-based)
    state_id,        \* process_state: state_id
    audit_id,        \* process_state: audit_id
    counts,          \* process_state: counts
    t,               \* index into sample_tests of the test being processed
    test_id,         \* process_state: test_id
    objectives,      \* process_state: objectives (of the current test)
    j,               \* index into objectives of the objective being processed
    exc,             \* the exception caught by process_state's handler, or None
    total_counts,    \* run_full_pipeline: total_counts
    result,          \* what run_full_pipeline returned, or NotCalled
    states_tbl,      \* table states
    tests_tbl,       \* table tests
    objectives_tbl,  \* table objectives
    audits_tbl,      \* table audits
    seq,             \* sqlite_sequence: the AUTOINCREMENT counter of each table
    lastrowid,       \* rowid of the connection's last successful INSERT
    inserted_in,     \* history: objective row id -> audit id of the run that inserted it
    engine_log,      \* history: the engine calls process_state made, in order
    fn_args,         \* arguments of a direct call of an engine function
    fn_ret           \* what that call returned, or NotCalled

pipeline_vars == <<pc, units, fault, seen, down, i, state_id, audit_id, counts, t,
                   test_id, objectives, j, exc, total_counts, result, states_tbl,
                   tests_tbl, objectives_tbl, audits_tbl, seq, lastrowid,
                   inserted_in, engine_log>>

fn_vars == <<fn_args, fn_ret>>

vars == <<pipeline_vars, fn_vars>>

-----------------------------------------------------------------------------
(* Python values *)

None == "<None>"

NotCalled == [called |-> FALSE]

Get(d, k, default) == IF k \in DOMAIN d THEN d[k] ELSE default

Truthy(v) == v # None /\ v # ""

\* BEGIN character table: every string the model reads character by character
CharTable ==
    ("" :> <<>>)
    @@ ("  1. Understand the development of young children  " :> <<" "," ","1","."," ","U","n","d","e","r","s","t","a","n","d"," ","t","h","e"," ","d","e","v","e","l","o","p","m","e","n","t"," ","o","f"," ","y","o","u","n","g"," ","c","h","i","l","d","r","e","n"," "," ">>)
    @@ ("  Students understand fractions  " :> <<" "," ","S","t","u","d","e","n","t","s"," ","u","n","d","e","r","s","t","a","n","d"," ","f","r","a","c","t","i","o","n","s"," "," ">>)
    @@ ("%PD" :> <<"%","P","D">>)
    @@ ("%PDF" :> <<"%","P","D","F">>)
    @@ ("%PDF-1.7" :> <<"%","P","D","F","-","1",".","7">>)
    @@ ("(1) Tests are given in the spring" :> <<"(","1",")"," ","T","e","s","t","s"," ","a","r","e"," ","g","i","v","e","n"," ","i","n"," ","t","h","e"," ","s","p","r","i","n","g">>)
    @@ ("* a b c d" :> <<"*"," ","a"," ","b"," ","c"," ","d">>)
    @@ ("- Plans lessons for all students\t" :> <<"-"," ","P","l","a","n","s"," ","l","e","s","s","o","n","s"," ","f","o","r"," ","a","l","l"," ","s","t","u","d","e","n","t","s","\t">>)
    @@ (".edu" :> <<".","e","d","u">>)
    @@ (".gov" :> <<".","g","o","v">>)
    @@ (".pdf" :> <<".","p","d","f">>)
    @@ ("1 b c d e f" :> <<"1"," ","b"," ","c"," ","d"," ","e"," ","f">>)
    @@ ("2)Apply the rules of grammar and usage" :> <<"2",")","A","p","p","l","y"," ","t","h","e"," ","r","u","l","e","s"," ","o","f"," ","g","r","a","m","m","a","r"," ","a","n","d"," ","u","s","a","g","e">>)
    @@ ("://" :> <<":","/","/">>)
    @@ ("<!DOCTYP" :> <<"<","!","D","O","C","T","Y","P">>)
    @@ ("AK" :> <<"A","K">>)
    @@ ("AK State Exam" :> <<"A","K"," ","S","t","a","t","e"," ","E","x","a","m">>)
    @@ ("AL" :> <<"A","L">>)
    @@ ("AL State Exam" :> <<"A","L"," ","S","t","a","t","e"," ","E","x","a","m">>)
    @@ ("Alabama" :> <<"A","l","a","b","a","m","a">>)
    @@ ("Alabama Teaching Foundations" :> <<"A","l","a","b","a","m","a"," ","T","e","a","c","h","i","n","g"," ","F","o","u","n","d","a","t","i","o","n","s">>)
    @@ ("Alabama requires Praxis 5001 and praxis  5161; edTPA is optional" :> <<"A","l","a","b","a","m","a"," ","r","e","q","u","i","r","e","s"," ","P","r","a","x","i","s"," ","5","0","0","1"," ","a","n","d"," ","p","r","a","x","i","s"," "," ","5","1","6","1",";"," ","e","d","T","P","A"," ","i","s"," ","o","p","t","i","o","n","a","l">>)
    @@ ("Alaska" :> <<"A","l","a","s","k","a">>)
    @@ ("Alaska Teaching Foundations" :> <<"A","l","a","s","k","a"," ","T","e","a","c","h","i","n","g"," ","F","o","u","n","d","a","t","i","o","n","s">>)
    @@ ("Analyze and teach literary and informational texts" :> <<"A","n","a","l","y","z","e"," ","a","n","d"," ","t","e","a","c","h"," ","l","i","t","e","r","a","r","y"," ","a","n","d"," ","i","n","f","o","r","m","a","t","i","o","n","a","l"," ","t","e","x","t","s">>)
    @@ ("Application of Content: Connects concepts using differing perspectives" :> <<"A","p","p","l","i","c","a","t","i","o","n"," ","o","f"," ","C","o","n","t","e","n","t",":"," ","C","o","n","n","e","c","t","s"," ","c","o","n","c","e","p","t","s"," ","u","s","i","n","g"," ","d","i","f","f","e","r","i","n","g"," ","p","e","r","s","p","e","c","t","i","v","e","s">>)
    @@ ("Application/PDF" :> <<"A","p","p","l","i","c","a","t","i","o","n","/","P","D","F">>)
    @@ ("Apply\tknowledge of\nchild   development stages" :> <<"A","p","p","l","y","\t","k","n","o","w","l","e","d","g","e"," ","o","f","\n","c","h","i","l","d"," "," "," ","d","e","v","e","l","o","p","m","e","n","t"," ","s","t","a","g","e","s">>)
    @@ ("Apply Educational Testing Service (ETS) standards for teacher readiness" :> <<"A","p","p","l","y"," ","E","d","u","c","a","t","i","o","n","a","l"," ","T","e","s","t","i","n","g"," ","S","e","r","v","i","c","e"," ","(","E","T","S",")"," ","s","t","a","n","d","a","r","d","s"," ","f","o","r"," ","t","e","a","c","h","e","r"," ","r","e","a","d","i","n","e","s","s">>)
    @@ ("Apply assessment for eligibility, progress monitoring, and instruction" :> <<"A","p","p","l","y"," ","a","s","s","e","s","s","m","e","n","t"," ","f","o","r"," ","e","l","i","g","i","b","i","l","i","t","y",","," ","p","r","o","g","r","e","s","s"," ","m","o","n","i","t","o","r","i","n","g",","," ","a","n","d"," ","i","n","s","t","r","u","c","t","i","o","n">>)
    @@ ("Apply civic knowledge and promote civic engagement" :> <<"A","p","p","l","y"," ","c","i","v","i","c"," ","k","n","o","w","l","e","d","g","e"," ","a","n","d"," ","p","r","o","m","o","t","e"," ","c","i","v","i","c"," ","e","n","g","a","g","e","m","e","n","t">>)
    @@ ("Apply effective instructional strategies for diverse learners" :> <<"A","p","p","l","y"," ","e","f","f","e","c","t","i","v","e"," ","i","n","s","t","r","u","c","t","i","o","n","a","l"," ","s","t","r","a","t","e","g","i","e","s"," ","f","o","r"," ","d","i","v","e","r","s","e"," ","l","e","a","r","n","e","r","s">>)
    @@ ("Apply individualized education program (IEP) development and implementation" :> <<"A","p","p","l","y"," ","i","n","d","i","v","i","d","u","a","l","i","z","e","d"," ","e","d","u","c","a","t","i","o","n"," ","p","r","o","g","r","a","m"," ","(","I","E","P",")"," ","d","e","v","e","l","o","p","m","e","n","t"," ","a","n","d"," ","i","m","p","l","e","m","e","n","t","a","t","i","o","n">>)
    @@ ("Apply knowledge" :> <<"A","p","p","l","y"," ","k","n","o","w","l","e","d","g","e">>)
    @@ ("Apply knowledge of student learning" :> <<"A","p","p","l","y"," ","k","n","o","w","l","e","d","g","e"," ","o","f"," ","s","t","u","d","e","n","t"," ","l","e","a","r","n","i","n","g">>)
    @@ ("Apply linguistics and language development principles" :> <<"A","p","p","l","y"," ","l","i","n","g","u","i","s","t","i","c","s"," ","a","n","d"," ","l","a","n","g","u","a","g","e"," ","d","e","v","e","l","o","p","m","e","n","t"," ","p","r","i","n","c","i","p","l","e","s">>)
    @@ ("Apply mathematical reasoning and problem-solving strategies" :> <<"A","p","p","l","y"," ","m","a","t","h","e","m","a","t","i","c","a","l"," ","r","e","a","s","o","n","i","n","g"," ","a","n","d"," ","p","r","o","b","l","e","m","-","s","o","l","v","i","n","g"," ","s","t","r","a","t","e","g","i","e","s">>)
    @@ ("Apply pedagogical principles and instructional strategies" :> <<"A","p","p","l","y"," ","p","e","d","a","g","o","g","i","c","a","l"," ","p","r","i","n","c","i","p","l","e","s"," ","a","n","d"," ","i","n","s","t","r","u","c","t","i","o","n","a","l"," ","s","t","r","a","t","e","g","i","e","s">>)
    @@ ("Apply scientific inquiry and investigation methods" :> <<"A","p","p","l","y"," ","s","c","i","e","n","t","i","f","i","c"," ","i","n","q","u","i","r","y"," ","a","n","d"," ","i","n","v","e","s","t","i","g","a","t","i","o","n"," ","m","e","t","h","o","d","s">>)
    @@ ("Apply statistical and probabilistic reasoning" :> <<"A","p","p","l","y"," ","s","t","a","t","i","s","t","i","c","a","l"," ","a","n","d"," ","p","r","o","b","a","b","i","l","i","s","t","i","c"," ","r","e","a","s","o","n","i","n","g">>)
    @@ ("Apply the four rules" :> <<"A","p","p","l","y"," ","t","h","e"," ","f","o","u","r"," ","r","u","l","e","s">>)
    @@ ("Apply the four rules." :> <<"A","p","p","l","y"," ","t","h","e"," ","f","o","u","r"," ","r","u","l","e","s",".">>)
    @@ ("Arizona" :> <<"A","r","i","z","o","n","a">>)
    @@ ("Arizona Teaching Foundations" :> <<"A","r","i","z","o","n","a"," ","T","e","a","c","h","i","n","g"," ","F","o","u","n","d","a","t","i","o","n","s">>)
    @@ ("Assess and evaluate student learning and progress" :> <<"A","s","s","e","s","s"," ","a","n","d"," ","e","v","a","l","u","a","t","e"," ","s","t","u","d","e","n","t"," ","l","e","a","r","n","i","n","g"," ","a","n","d"," ","p","r","o","g","r","e","s","s">>)
    @@ ("Assess and support literacy development" :> <<"A","s","s","e","s","s"," ","a","n","d"," ","s","u","p","p","o","r","t"," ","l","i","t","e","r","a","c","y"," ","d","e","v","e","l","o","p","m","e","n","t">>)
    @@ ("Assess student understanding of mathematical concepts" :> <<"A","s","s","e","s","s"," ","s","t","u","d","e","n","t"," ","u","n","d","e","r","s","t","a","n","d","i","n","g"," ","o","f"," ","m","a","t","h","e","m","a","t","i","c","a","l"," ","c","o","n","c","e","p","t","s">>)
    @@ ("Assess student understanding of scientific concepts" :> <<"A","s","s","e","s","s"," ","s","t","u","d","e","n","t"," ","u","n","d","e","r","s","t","a","n","d","i","n","g"," ","o","f"," ","s","c","i","e","n","t","i","f","i","c"," ","c","o","n","c","e","p","t","s">>)
    @@ ("Assessment: Understands and uses multiple methods of assessment" :> <<"A","s","s","e","s","s","m","e","n","t",":"," ","U","n","d","e","r","s","t","a","n","d","s"," ","a","n","d"," ","u","s","e","s"," ","m","u","l","t","i","p","l","e"," ","m","e","t","h","o","d","s"," ","o","f"," ","a","s","s","e","s","s","m","e","n","t">>)
    @@ ("Because the causes remain unclear to everyone" :> <<"B","e","c","a","u","s","e"," ","t","h","e"," ","c","a","u","s","e","s"," ","r","e","m","a","i","n"," ","u","n","c","l","e","a","r"," ","t","o"," ","e","v","e","r","y","o","n","e">>)
    @@ ("Click here for the full study guide online" :> <<"C","l","i","c","k"," ","h","e","r","e"," ","f","o","r"," ","t","h","e"," ","f","u","l","l"," ","s","t","u","d","y"," ","g","u","i","d","e"," ","o","n","l","i","n","e">>)
    @@ ("Collaborate with colleagues, families, and communities" :> <<"C","o","l","l","a","b","o","r","a","t","e"," ","w","i","t","h"," ","c","o","l","l","e","a","g","u","e","s",","," ","f","a","m","i","l","i","e","s",","," ","a","n","d"," ","c","o","m","m","u","n","i","t","i","e","s">>)
    @@ ("Collaborate with families, educators, and service providers" :> <<"C","o","l","l","a","b","o","r","a","t","e"," ","w","i","t","h"," ","f","a","m","i","l","i","e","s",","," ","e","d","u","c","a","t","o","r","s",","," ","a","n","d"," ","s","e","r","v","i","c","e"," ","p","r","o","v","i","d","e","r","s">>)
    @@ ("Connect mathematics to real-world applications and other disciplines" :> <<"C","o","n","n","e","c","t"," ","m","a","t","h","e","m","a","t","i","c","s"," ","t","o"," ","r","e","a","l","-","w","o","r","l","d"," ","a","p","p","l","i","c","a","t","i","o","n","s"," ","a","n","d"," ","o","t","h","e","r"," ","d","i","s","c","i","p","l","i","n","e","s">>)
    @@ ("Connect science concepts across disciplines" :> <<"C","o","n","n","e","c","t"," ","s","c","i","e","n","c","e"," ","c","o","n","c","e","p","t","s"," ","a","c","r","o","s","s"," ","d","i","s","c","i","p","l","i","n","e","s">>)
    @@ ("Content Knowledge: Understands the central concepts and tools of inquiry" :> <<"C","o","n","t","e","n","t"," ","K","n","o","w","l","e","d","g","e",":"," ","U","n","d","e","r","s","t","a","n","d","s"," ","t","h","e"," ","c","e","n","t","r","a","l"," ","c","o","n","c","e","p","t","s"," ","a","n","d"," ","t","o","o","l","s"," ","o","f"," ","i","n","q","u","i","r","y">>)
    @@ ("Create inclusive and culturally responsive classroom environments" :> <<"C","r","e","a","t","e"," ","i","n","c","l","u","s","i","v","e"," ","a","n","d"," ","c","u","l","t","u","r","a","l","l","y"," ","r","e","s","p","o","n","s","i","v","e"," ","c","l","a","s","s","r","o","o","m"," ","e","n","v","i","r","o","n","m","e","n","t","s">>)
    @@ ("Create inclusive and equitable learning environments" :> <<"C","r","e","a","t","e"," ","i","n","c","l","u","s","i","v","e"," ","a","n","d"," ","e","q","u","i","t","a","b","l","e"," ","l","e","a","r","n","i","n","g"," ","e","n","v","i","r","o","n","m","e","n","t","s">>)
    @@ ("DEMONSTRATE KNOWLEDGE OF CHILD DEVELOPMENT STAGES" :> <<"D","E","M","O","N","S","T","R","A","T","E"," ","K","N","O","W","L","E","D","G","E"," ","O","F"," ","C","H","I","L","D"," ","D","E","V","E","L","O","P","M","E","N","T"," ","S","T","A","G","E","S">>)
    @@ ("DEMONSTRATE number sense and more" :> <<"D","E","M","O","N","S","T","R","A","T","E"," ","n","u","m","b","e","r"," ","s","e","n","s","e"," ","a","n","d"," ","m","o","r","e">>)
    @@ ("Demonstrate content knowledge in " :> <<"D","e","m","o","n","s","t","r","a","t","e"," ","c","o","n","t","e","n","t"," ","k","n","o","w","l","e","d","g","e"," ","i","n"," ">>)
    @@ ("Demonstrate content knowledge in Alabama Teaching Foundations" :> <<"D","e","m","o","n","s","t","r","a","t","e"," ","c","o","n","t","e","n","t"," ","k","n","o","w","l","e","d","g","e"," ","i","n"," ","A","l","a","b","a","m","a"," ","T","e","a","c","h","i","n","g"," ","F","o","u","n","d","a","t","i","o","n","s">>)
    @@ ("Demonstrate content knowledge in Alaska Teaching Foundations" :> <<"D","e","m","o","n","s","t","r","a","t","e"," ","c","o","n","t","e","n","t"," ","k","n","o","w","l","e","d","g","e"," ","i","n"," ","A","l","a","s","k","a"," ","T","e","a","c","h","i","n","g"," ","F","o","u","n","d","a","t","i","o","n","s">>)
    @@ ("Demonstrate content knowledge in Arizona Teaching Foundations" :> <<"D","e","m","o","n","s","t","r","a","t","e"," ","c","o","n","t","e","n","t"," ","k","n","o","w","l","e","d","g","e"," ","i","n"," ","A","r","i","z","o","n","a"," ","T","e","a","c","h","i","n","g"," ","F","o","u","n","d","a","t","i","o","n","s">>)
    @@ ("Demonstrate content knowledge in ELEMENTARY Methods" :> <<"D","e","m","o","n","s","t","r","a","t","e"," ","c","o","n","t","e","n","t"," ","k","n","o","w","l","e","d","g","e"," ","i","n"," ","E","L","E","M","E","N","T","A","R","Y"," ","M","e","t","h","o","d","s">>)
    @@ ("Demonstrate content knowledge in Elementary Education: Multiple Subjects" :> <<"D","e","m","o","n","s","t","r","a","t","e"," ","c","o","n","t","e","n","t"," ","k","n","o","w","l","e","d","g","e"," ","i","n"," ","E","l","e","m","e","n","t","a","r","y"," ","E","d","u","c","a","t","i","o","n",":"," ","M","u","l","t","i","p","l","e"," ","S","u","b","j","e","c","t","s">>)
    @@ ("Demonstrate content knowledge in General Science" :> <<"D","e","m","o","n","s","t","r","a","t","e"," ","c","o","n","t","e","n","t"," ","k","n","o","w","l","e","d","g","e"," ","i","n"," ","G","e","n","e","r","a","l"," ","S","c","i","e","n","c","e">>)
    @@ ("Demonstrate content knowledge in Mathematics: Content Knowledge" :> <<"D","e","m","o","n","s","t","r","a","t","e"," ","c","o","n","t","e","n","t"," ","k","n","o","w","l","e","d","g","e"," ","i","n"," ","M","a","t","h","e","m","a","t","i","c","s",":"," ","C","o","n","t","e","n","t"," ","K","n","o","w","l","e","d","g","e">>)
    @@ ("Demonstrate content knowledge in Physics" :> <<"D","e","m","o","n","s","t","r","a","t","e"," ","c","o","n","t","e","n","t"," ","k","n","o","w","l","e","d","g","e"," ","i","n"," ","P","h","y","s","i","c","s">>)
    @@ ("Demonstrate content knowledge in earth and space sciences" :> <<"D","e","m","o","n","s","t","r","a","t","e"," ","c","o","n","t","e","n","t"," ","k","n","o","w","l","e","d","g","e"," ","i","n"," ","e","a","r","t","h"," ","a","n","d"," ","s","p","a","c","e"," ","s","c","i","e","n","c","e","s">>)
    @@ ("Demonstrate content knowledge in life sciences" :> <<"D","e","m","o","n","s","t","r","a","t","e"," ","c","o","n","t","e","n","t"," ","k","n","o","w","l","e","d","g","e"," ","i","n"," ","l","i","f","e"," ","s","c","i","e","n","c","e","s">>)
    @@ ("Demonstrate content knowledge in physical sciences" :> <<"D","e","m","o","n","s","t","r","a","t","e"," ","c","o","n","t","e","n","t"," ","k","n","o","w","l","e","d","g","e"," ","i","n"," ","p","h","y","s","i","c","a","l"," ","s","c","i","e","n","c","e","s">>)
    @@ ("Demonstrate content knowledge. Copyright 2024 All Rights Reserved" :> <<"D","e","m","o","n","s","t","r","a","t","e"," ","c","o","n","t","e","n","t"," ","k","n","o","w","l","e","d","g","e","."," ","C","o","p","y","r","i","g","h","t"," ","2","0","2","4"," ","A","l","l"," ","R","i","g","h","t","s"," ","R","e","s","e","r","v","e","d">>)
    @@ ("Demonstrate deep understanding of mathematical concepts and procedures" :> <<"D","e","m","o","n","s","t","r","a","t","e"," ","d","e","e","p"," ","u","n","d","e","r","s","t","a","n","d","i","n","g"," ","o","f"," ","m","a","t","h","e","m","a","t","i","c","a","l"," ","c","o","n","c","e","p","t","s"," ","a","n","d"," ","p","r","o","c","e","d","u","r","e","s">>)
    @@ ("Demonstrate knowledge of child development and learning theory" :> <<"D","e","m","o","n","s","t","r","a","t","e"," ","k","n","o","w","l","e","d","g","e"," ","o","f"," ","c","h","i","l","d"," ","d","e","v","e","l","o","p","m","e","n","t"," ","a","n","d"," ","l","e","a","r","n","i","n","g"," ","t","h","e","o","r","y">>)
    @@ ("Demonstrate knowledge of child development stages" :> <<"D","e","m","o","n","s","t","r","a","t","e"," ","k","n","o","w","l","e","d","g","e"," ","o","f"," ","c","h","i","l","d"," ","d","e","v","e","l","o","p","m","e","n","t"," ","s","t","a","g","e","s">>)
    @@ ("Demonstrate knowledge of reading processes and comprehension strategies" :> <<"D","e","m","o","n","s","t","r","a","t","e"," ","k","n","o","w","l","e","d","g","e"," ","o","f"," ","r","e","a","d","i","n","g"," ","p","r","o","c","e","s","s","e","s"," ","a","n","d"," ","c","o","m","p","r","e","h","e","n","s","i","o","n"," ","s","t","r","a","t","e","g","i","e","s">>)
    @@ ("Develop geometric and spatial reasoning in students" :> <<"D","e","v","e","l","o","p"," ","g","e","o","m","e","t","r","i","c"," ","a","n","d"," ","s","p","a","t","i","a","l"," ","r","e","a","s","o","n","i","n","g"," ","i","n"," ","s","t","u","d","e","n","t","s">>)
    @@ ("Develop students' critical thinking and communication skills" :> <<"D","e","v","e","l","o","p"," ","s","t","u","d","e","n","t","s","'"," ","c","r","i","t","i","c","a","l"," ","t","h","i","n","k","i","n","g"," ","a","n","d"," ","c","o","m","m","u","n","i","c","a","t","i","o","n"," ","s","k","i","l","l","s">>)
    @@ ("Develop students' geographic literacy and spatial thinking" :> <<"D","e","v","e","l","o","p"," ","s","t","u","d","e","n","t","s","'"," ","g","e","o","g","r","a","p","h","i","c"," ","l","i","t","e","r","a","c","y"," ","a","n","d"," ","s","p","a","t","i","a","l"," ","t","h","i","n","k","i","n","g">>)
    @@ ("Develop students' scientific reasoning and critical thinking" :> <<"D","e","v","e","l","o","p"," ","s","t","u","d","e","n","t","s","'"," ","s","c","i","e","n","t","i","f","i","c"," ","r","e","a","s","o","n","i","n","g"," ","a","n","d"," ","c","r","i","t","i","c","a","l"," ","t","h","i","n","k","i","n","g">>)
    @@ ("Develop students' speaking and listening skills" :> <<"D","e","v","e","l","o","p"," ","s","t","u","d","e","n","t","s","'"," ","s","p","e","a","k","i","n","g"," ","a","n","d"," ","l","i","s","t","e","n","i","n","g"," ","s","k","i","l","l","s">>)
    @@ ("Differentiate instruction for diverse language learners" :> <<"D","i","f","f","e","r","e","n","t","i","a","t","e"," ","i","n","s","t","r","u","c","t","i","o","n"," ","f","o","r"," ","d","i","v","e","r","s","e"," ","l","a","n","g","u","a","g","e"," ","l","e","a","r","n","e","r","s">>)
    @@ ("Differentiate instruction for diverse mathematical learners" :> <<"D","i","f","f","e","r","e","n","t","i","a","t","e"," ","i","n","s","t","r","u","c","t","i","o","n"," ","f","o","r"," ","d","i","v","e","r","s","e"," ","m","a","t","h","e","m","a","t","i","c","a","l"," ","l","e","a","r","n","e","r","s">>)
    @@ ("ELEMENTARY Methods" :> <<"E","L","E","M","E","N","T","A","R","Y"," ","M","e","t","h","o","d","s">>)
    @@ ("Elementary Education" :> <<"E","l","e","m","e","n","t","a","r","y"," ","E","d","u","c","a","t","i","o","n">>)
    @@ ("Elementary Education: Multiple Subjects" :> <<"E","l","e","m","e","n","t","a","r","y"," ","E","d","u","c","a","t","i","o","n",":"," ","M","u","l","t","i","p","l","e"," ","S","u","b","j","e","c","t","s">>)
    @@ ("Engage in professional growth and ethical practice" :> <<"E","n","g","a","g","e"," ","i","n"," ","p","r","o","f","e","s","s","i","o","n","a","l"," ","g","r","o","w","t","h"," ","a","n","d"," ","e","t","h","i","c","a","l"," ","p","r","a","c","t","i","c","e">>)
    @@ ("English Language Arts" :> <<"E","n","g","l","i","s","h"," ","L","a","n","g","u","a","g","e"," ","A","r","t","s">>)
    @@ ("Ensure access to general education curriculum" :> <<"E","n","s","u","r","e"," ","a","c","c","e","s","s"," ","t","o"," ","g","e","n","e","r","a","l"," ","e","d","u","c","a","t","i","o","n"," ","c","u","r","r","i","c","u","l","u","m">>)
    @@ ("General Science" :> <<"G","e","n","e","r","a","l"," ","S","c","i","e","n","c","e">>)
    @@ ("Guam" :> <<"G","u","a","m">>)
    @@ ("HTTPS://DOE.EXAMPLE.GOV/GUIDE.PDF" :> <<"H","T","T","P","S",":","/","/","D","O","E",".","E","X","A","M","P","L","E",".","G","O","V","/","G","U","I","D","E",".","P","D","F">>)
    @@ ("Implement positive behavior supports and interventions" :> <<"I","m","p","l","e","m","e","n","t"," ","p","o","s","i","t","i","v","e"," ","b","e","h","a","v","i","o","r"," ","s","u","p","p","o","r","t","s"," ","a","n","d"," ","i","n","t","e","r","v","e","n","t","i","o","n","s">>)
    @@ ("Implement science inquiry and investigation methods" :> <<"I","m","p","l","e","m","e","n","t"," ","s","c","i","e","n","c","e"," ","i","n","q","u","i","r","y"," ","a","n","d"," ","i","n","v","e","s","t","i","g","a","t","i","o","n"," ","m","e","t","h","o","d","s">>)
    @@ ("Instructional Strategies: Understands and uses a variety of instructional strategies" :> <<"I","n","s","t","r","u","c","t","i","o","n","a","l"," ","S","t","r","a","t","e","g","i","e","s",":"," ","U","n","d","e","r","s","t","a","n","d","s"," ","a","n","d"," ","u","s","e","s"," ","a"," ","v","a","r","i","e","t","y"," ","o","f"," ","i","n","s","t","r","u","c","t","i","o","n","a","l"," ","s","t","r","a","t","e","g","i","e","s">>)
    @@ ("Integrate literacy instruction across content areas" :> <<"I","n","t","e","g","r","a","t","e"," ","l","i","t","e","r","a","c","y"," ","i","n","s","t","r","u","c","t","i","o","n"," ","a","c","r","o","s","s"," ","c","o","n","t","e","n","t"," ","a","r","e","a","s">>)
    @@ ("Integrate primary and secondary source analysis" :> <<"I","n","t","e","g","r","a","t","e"," ","p","r","i","m","a","r","y"," ","a","n","d"," ","s","e","c","o","n","d","a","r","y"," ","s","o","u","r","c","e"," ","a","n","a","l","y","s","i","s">>)
    @@ ("Integrate technology and media literacy instruction" :> <<"I","n","t","e","g","r","a","t","e"," ","t","e","c","h","n","o","l","o","g","y"," ","a","n","d"," ","m","e","d","i","a"," ","l","i","t","e","r","a","c","y"," ","i","n","s","t","r","u","c","t","i","o","n">>)
    @@ ("Integrate technology and resources to enhance learning" :> <<"I","n","t","e","g","r","a","t","e"," ","t","e","c","h","n","o","l","o","g","y"," ","a","n","d"," ","r","e","s","o","u","r","c","e","s"," ","t","o"," ","e","n","h","a","n","c","e"," ","l","e","a","r","n","i","n","g">>)
    @@ ("Knowledge of child development stages and theories" :> <<"K","n","o","w","l","e","d","g","e"," ","o","f"," ","c","h","i","l","d"," ","d","e","v","e","l","o","p","m","e","n","t"," ","s","t","a","g","e","s"," ","a","n","d"," ","t","h","e","o","r","i","e","s">>)
    @@ ("Leadership and Collaboration: Seeks leadership roles and collaborates" :> <<"L","e","a","d","e","r","s","h","i","p"," ","a","n","d"," ","C","o","l","l","a","b","o","r","a","t","i","o","n",":"," ","S","e","e","k","s"," ","l","e","a","d","e","r","s","h","i","p"," ","r","o","l","e","s"," ","a","n","d"," ","c","o","l","l","a","b","o","r","a","t","e","s">>)
    @@ ("Learner Development: Understands how learners grow and develop" :> <<"L","e","a","r","n","e","r"," ","D","e","v","e","l","o","p","m","e","n","t",":"," ","U","n","d","e","r","s","t","a","n","d","s"," ","h","o","w"," ","l","e","a","r","n","e","r","s"," ","g","r","o","w"," ","a","n","d"," ","d","e","v","e","l","o","p">>)
    @@ ("Learning Differences: Uses understanding of individual differences and diverse cultures" :> <<"L","e","a","r","n","i","n","g"," ","D","i","f","f","e","r","e","n","c","e","s",":"," ","U","s","e","s"," ","u","n","d","e","r","s","t","a","n","d","i","n","g"," ","o","f"," ","i","n","d","i","v","i","d","u","a","l"," ","d","i","f","f","e","r","e","n","c","e","s"," ","a","n","d"," ","d","i","v","e","r","s","e"," ","c","u","l","t","u","r","e","s">>)
    @@ ("Learning Environments: Works with others to create environments that support learning" :> <<"L","e","a","r","n","i","n","g"," ","E","n","v","i","r","o","n","m","e","n","t","s",":"," ","W","o","r","k","s"," ","w","i","t","h"," ","o","t","h","e","r","s"," ","t","o"," ","c","r","e","a","t","e"," ","e","n","v","i","r","o","n","m","e","n","t","s"," ","t","h","a","t"," ","s","u","p","p","o","r","t"," ","l","e","a","r","n","i","n","g">>)
    @@ ("Mathematics" :> <<"M","a","t","h","e","m","a","t","i","c","s">>)
    @@ ("Mathematics: Content Knowledge" :> <<"M","a","t","h","e","m","a","t","i","c","s",":"," ","C","o","n","t","e","n","t"," ","K","n","o","w","l","e","d","g","e">>)
    @@ ("Meet state-specific educator preparation standards" :> <<"M","e","e","t"," ","s","t","a","t","e","-","s","p","e","c","i","f","i","c"," ","e","d","u","c","a","t","o","r"," ","p","r","e","p","a","r","a","t","i","o","n"," ","s","t","a","n","d","a","r","d","s">>)
    @@ ("NES" :> <<"N","E","S">>)
    @@ ("Objectives" :> <<"O","b","j","e","c","t","i","v","e","s">>)
    @@ ("Physics" :> <<"P","h","y","s","i","c","s">>)
    @@ ("Planning for Instruction: Plans instruction that supports every student" :> <<"P","l","a","n","n","i","n","g"," ","f","o","r"," ","I","n","s","t","r","u","c","t","i","o","n",":"," ","P","l","a","n","s"," ","i","n","s","t","r","u","c","t","i","o","n"," ","t","h","a","t"," ","s","u","p","p","o","r","t","s"," ","e","v","e","r","y"," ","s","t","u","d","e","n","t">>)
    @@ ("Praxis" :> <<"P","r","a","x","i","s">>)
    @@ ("Praxis 5001 Elementary Education" :> <<"P","r","a","x","i","s"," ","5","0","0","1"," ","E","l","e","m","e","n","t","a","r","y"," ","E","d","u","c","a","t","i","o","n">>)
    @@ ("Professional Learning: Engages in ongoing professional learning" :> <<"P","r","o","f","e","s","s","i","o","n","a","l"," ","L","e","a","r","n","i","n","g",":"," ","E","n","g","a","g","e","s"," ","i","n"," ","o","n","g","o","i","n","g"," ","p","r","o","f","e","s","s","i","o","n","a","l"," ","l","e","a","r","n","i","n","g">>)
    @@ ("Promote cultural awareness and global perspectives" :> <<"P","r","o","m","o","t","e"," ","c","u","l","t","u","r","a","l"," ","a","w","a","r","e","n","e","s","s"," ","a","n","d"," ","g","l","o","b","a","l"," ","p","e","r","s","p","e","c","t","i","v","e","s">>)
    @@ ("Science" :> <<"S","c","i","e","n","c","e">>)
    @@ ("Social Studies" :> <<"S","o","c","i","a","l"," ","S","t","u","d","i","e","s">>)
    @@ ("Special Education" :> <<"S","p","e","c","i","a","l"," ","E","d","u","c","a","t","i","o","n">>)
    @@ ("Students will read two novels this year" :> <<"S","t","u","d","e","n","t","s"," ","w","i","l","l"," ","r","e","a","d"," ","t","w","o"," ","n","o","v","e","l","s"," ","t","h","i","s"," ","y","e","a","r">>)
    @@ ("Teach economic concepts and financial literacy" :> <<"T","e","a","c","h"," ","e","c","o","n","o","m","i","c"," ","c","o","n","c","e","p","t","s"," ","a","n","d"," ","f","i","n","a","n","c","i","a","l"," ","l","i","t","e","r","a","c","y">>)
    @@ ("Teach historical thinking and chronological reasoning" :> <<"T","e","a","c","h"," ","h","i","s","t","o","r","i","c","a","l"," ","t","h","i","n","k","i","n","g"," ","a","n","d"," ","c","h","r","o","n","o","l","o","g","i","c","a","l"," ","r","e","a","s","o","n","i","n","g">>)
    @@ ("Teach number sense, operations, and algebraic thinking" :> <<"T","e","a","c","h"," ","n","u","m","b","e","r"," ","s","e","n","s","e",","," ","o","p","e","r","a","t","i","o","n","s",","," ","a","n","d"," ","a","l","g","e","b","r","a","i","c"," ","t","h","i","n","k","i","n","g">>)
    @@ ("Teach social studies content and citizenship concepts" :> <<"T","e","a","c","h"," ","s","o","c","i","a","l"," ","s","t","u","d","i","e","s"," ","c","o","n","t","e","n","t"," ","a","n","d"," ","c","i","t","i","z","e","n","s","h","i","p"," ","c","o","n","c","e","p","t","s">>)
    @@ ("Teach writing processes and composition across genres" :> <<"T","e","a","c","h"," ","w","r","i","t","i","n","g"," ","p","r","o","c","e","s","s","e","s"," ","a","n","d"," ","c","o","m","p","o","s","i","t","i","o","n"," ","a","c","r","o","s","s"," ","g","e","n","r","e","s">>)
    @@ ("Teachers demonstrate knowledge of content" :> <<"T","e","a","c","h","e","r","s"," ","d","e","m","o","n","s","t","r","a","t","e"," ","k","n","o","w","l","e","d","g","e"," ","o","f"," ","c","o","n","t","e","n","t">>)
    @@ ("The museum is closed on every Monday" :> <<"T","h","e"," ","m","u","s","e","u","m"," ","i","s"," ","c","l","o","s","e","d"," ","o","n"," ","e","v","e","r","y"," ","M","o","n","d","a","y">>)
    @@ ("The test has two parts and four hours" :> <<"T","h","e"," ","t","e","s","t"," ","h","a","s"," ","t","w","o"," ","p","a","r","t","s"," ","a","n","d"," ","f","o","u","r"," ","h","o","u","r","s">>)
    @@ ("Understand and teach mathematics concepts and problem-solving" :> <<"U","n","d","e","r","s","t","a","n","d"," ","a","n","d"," ","t","e","a","c","h"," ","m","a","t","h","e","m","a","t","i","c","s"," ","c","o","n","c","e","p","t","s"," ","a","n","d"," ","p","r","o","b","l","e","m","-","s","o","l","v","i","n","g">>)
    @@ ("Understand characteristics of students with disabilities" :> <<"U","n","d","e","r","s","t","a","n","d"," ","c","h","a","r","a","c","t","e","r","i","s","t","i","c","s"," ","o","f"," ","s","t","u","d","e","n","t","s"," ","w","i","t","h"," ","d","i","s","a","b","i","l","i","t","i","e","s">>)
    @@ ("Understand legal and ethical responsibilities in special education" :> <<"U","n","d","e","r","s","t","a","n","d"," ","l","e","g","a","l"," ","a","n","d"," ","e","t","h","i","c","a","l"," ","r","e","s","p","o","n","s","i","b","i","l","i","t","i","e","s"," ","i","n"," ","s","p","e","c","i","a","l"," ","e","d","u","c","a","t","i","o","n">>)
    @@ ("Understand sets" :> <<"U","n","d","e","r","s","t","a","n","d"," ","s","e","t","s">>)
    @@ ("Use evidence-based instructional strategies for diverse learners" :> <<"U","s","e"," ","e","v","i","d","e","n","c","e","-","b","a","s","e","d"," ","i","n","s","t","r","u","c","t","i","o","n","a","l"," ","s","t","r","a","t","e","g","i","e","s"," ","f","o","r"," ","d","i","v","e","r","s","e"," ","l","e","a","r","n","e","r","s">>)
    @@ ("Use formative and summative assessment to guide instruction" :> <<"U","s","e"," ","f","o","r","m","a","t","i","v","e"," ","a","n","d"," ","s","u","m","m","a","t","i","v","e"," ","a","s","s","e","s","s","m","e","n","t"," ","t","o"," ","g","u","i","d","e"," ","i","n","s","t","r","u","c","t","i","o","n">>)
    @@ ("Use inquiry-based approaches to social studies instruction" :> <<"U","s","e"," ","i","n","q","u","i","r","y","-","b","a","s","e","d"," ","a","p","p","r","o","a","c","h","e","s"," ","t","o"," ","s","o","c","i","a","l"," ","s","t","u","d","i","e","s"," ","i","n","s","t","r","u","c","t","i","o","n">>)
    @@ ("Use technology and laboratory equipment safely and effectively" :> <<"U","s","e"," ","t","e","c","h","n","o","l","o","g","y"," ","a","n","d"," ","l","a","b","o","r","a","t","o","r","y"," ","e","q","u","i","p","m","e","n","t"," ","s","a","f","e","l","y"," ","a","n","d"," ","e","f","f","e","c","t","i","v","e","l","y">>)
    @@ ("Use technology to enhance mathematical learning" :> <<"U","s","e"," ","t","e","c","h","n","o","l","o","g","y"," ","t","o"," ","e","n","h","a","n","c","e"," ","m","a","t","h","e","m","a","t","i","c","a","l"," ","l","e","a","r","n","i","n","g">>)
    @@ ("a b c d e f" :> <<"a"," ","b"," ","c"," ","d"," ","e"," ","f">>)
    @@ ("all rights reserved" :> <<"a","l","l"," ","r","i","g","h","t","s"," ","r","e","s","e","r","v","e","d">>)
    @@ ("analyze" :> <<"a","n","a","l","y","z","e">>)
    @@ ("application/pdf" :> <<"a","p","p","l","i","c","a","t","i","o","n","/","p","d","f">>)
    @@ ("apply" :> <<"a","p","p","l","y">>)
    @@ ("assess" :> <<"a","s","s","e","s","s">>)
    @@ ("click here" :> <<"c","l","i","c","k"," ","h","e","r","e">>)
    @@ ("collaborate" :> <<"c","o","l","l","a","b","o","r","a","t","e">>)
    @@ ("communicate" :> <<"c","o","m","m","u","n","i","c","a","t","e">>)
    @@ ("compare" :> <<"c","o","m","p","a","r","e">>)
    @@ ("copyright" :> <<"c","o","p","y","r","i","g","h","t">>)
    @@ ("create" :> <<"c","r","e","a","t","e">>)
    @@ ("demonstrate" :> <<"d","e","m","o","n","s","t","r","a","t","e">>)
    @@ ("describe" :> <<"d","e","s","c","r","i","b","e">>)
    @@ ("design" :> <<"d","e","s","i","g","n">>)
    @@ ("develop" :> <<"d","e","v","e","l","o","p">>)
    @@ ("doe." :> <<"d","o","e",".">>)
    @@ ("doe.example.gov/guide.pdf" :> <<"d","o","e",".","e","x","a","m","p","l","e",".","g","o","v","/","g","u","i","d","e",".","p","d","f">>)
    @@ ("download" :> <<"d","o","w","n","l","o","a","d">>)
    @@ ("edTPA" :> <<"e","d","T","P","A">>)
    @@ ("edtpa" :> <<"e","d","t","p","a">>)
    @@ ("edtpa.com" :> <<"e","d","t","p","a",".","c","o","m">>)
    @@ ("education." :> <<"e","d","u","c","a","t","i","o","n",".">>)
    @@ ("elementary" :> <<"e","l","e","m","e","n","t","a","r","y">>)
    @@ ("ets.org" :> <<"e","t","s",".","o","r","g">>)
    @@ ("evaluate" :> <<"e","v","a","l","u","a","t","e">>)
    @@ ("explain" :> <<"e","x","p","l","a","i","n">>)
    @@ ("general" :> <<"g","e","n","e","r","a","l">>)
    @@ ("https://cdn.example.org/files/guide.pdf" :> <<"h","t","t","p","s",":","/","/","c","d","n",".","e","x","a","m","p","l","e",".","o","r","g","/","f","i","l","e","s","/","g","u","i","d","e",".","p","d","f">>)
    @@ ("https://doe.example.gov/docs.pdf/index.html" :> <<"h","t","t","p","s",":","/","/","d","o","e",".","e","x","a","m","p","l","e",".","g","o","v","/","d","o","c","s",".","p","d","f","/","i","n","d","e","x",".","h","t","m","l">>)
    @@ ("https://doe.example.gov/guide" :> <<"h","t","t","p","s",":","/","/","d","o","e",".","e","x","a","m","p","l","e",".","g","o","v","/","g","u","i","d","e">>)
    @@ ("https://doe.example.gov/guide.pdf" :> <<"h","t","t","p","s",":","/","/","d","o","e",".","e","x","a","m","p","l","e",".","g","o","v","/","g","u","i","d","e",".","p","d","f">>)
    @@ ("https://doe.example.gov/guide.pdf?download=1" :> <<"h","t","t","p","s",":","/","/","d","o","e",".","e","x","a","m","p","l","e",".","g","o","v","/","g","u","i","d","e",".","p","d","f","?","d","o","w","n","l","o","a","d","=","1">>)
    @@ ("https://doe.example.gov/login" :> <<"h","t","t","p","s",":","/","/","d","o","e",".","e","x","a","m","p","l","e",".","g","o","v","/","l","o","g","i","n">>)
    @@ ("https://www.alsde.edu/tests" :> <<"h","t","t","p","s",":","/","/","w","w","w",".","a","l","s","d","e",".","e","d","u","/","t","e","s","t","s">>)
    @@ ("https://www.ets.org/praxis/al" :> <<"h","t","t","p","s",":","/","/","w","w","w",".","e","t","s",".","o","r","g","/","p","r","a","x","i","s","/","a","l">>)
    @@ ("https://www.teachertestprep.com/alabama" :> <<"h","t","t","p","s",":","/","/","w","w","w",".","t","e","a","c","h","e","r","t","e","s","t","p","r","e","p",".","c","o","m","/","a","l","a","b","a","m","a">>)
    @@ ("identify" :> <<"i","d","e","n","t","i","f","y">>)
    @@ ("implement" :> <<"i","m","p","l","e","m","e","n","t">>)
    @@ ("integrate" :> <<"i","n","t","e","g","r","a","t","e">>)
    @@ ("nes" :> <<"n","e","s">>)
    @@ ("nesinc.com" :> <<"n","e","s","i","n","c",".","c","o","m">>)
    @@ ("next page" :> <<"n","e","x","t"," ","p","a","g","e">>)
    @@ ("pearson.com" :> <<"p","e","a","r","s","o","n",".","c","o","m">>)
    @@ ("plan" :> <<"p","l","a","n">>)
    @@ ("praxis" :> <<"p","r","a","x","i","s">>)
    @@ ("read more" :> <<"r","e","a","d"," ","m","o","r","e">>)
    @@ ("state." :> <<"s","t","a","t","e",".">>)
    @@ ("table of contents" :> <<"t","a","b","l","e"," ","o","f"," ","c","o","n","t","e","n","t","s">>)
    @@ ("teach" :> <<"t","e","a","c","h">>)
    @@ ("text/html" :> <<"t","e","x","t","/","h","t","m","l">>)
    @@ ("understand" :> <<"u","n","d","e","r","s","t","a","n","d">>)
    @@ ("use" :> <<"u","s","e">>)
    @@ ("www.alabama.gov/licensure" :> <<"w","w","w",".","a","l","a","b","a","m","a",".","g","o","v","/","l","i","c","e","n","s","u","r","e">>)
\* END character table

Chars(s) == CharTable[s]

UpperCase == <<"A","B","C","D","E","F","G","H","I","J","K","L","M",
               "N","O","P","Q","R","S","T","U","V","W","X","Y","Z">>

LowerCase == <<"a","b","c","d","e","f","g","h","i","j","k","l","m",
               "n","o","p","q","r","s","t","u","v","w","x","y","z">>

LowerChar(c) ==
    IF \E k \in 1..26 : UpperCase[k] = c
    THEN LowerCase[CHOOSE k \in 1..26 : UpperCase[k] = c]
    ELSE c

\* str.lower(), on the characters
Lower(cs) == [k \in 1..Len(cs) |-> LowerChar(cs[k])]

\* "p in s", on the characters
Contains(cs, p) ==
    \E k \in 1..(Len(cs) - Len(p) + 1) : SubSeq(cs, k, k + Len(p) - 1) = p

IsSpace(c) == c \in {" ", "\t", "\n"}

\* len(s.split()): the number of maximal runs of non-whitespace
WordCount(cs) ==
    Cardinality({k \in 1..Len(cs) :
                    /\ ~IsSpace(cs[k])
                    /\ (k = 1 \/ IsSpace(cs[k-1]))})

\* the sequence s[1..n] of a sequence (Python s[:n])
Prefix(s, n) == SubSeq(s, 1, IF n < Len(s) THEN n ELSE Len(s))

-----------------------------------------------------------------------------
(* scripts/inference.py: InferenceEngine *)

intasc_standards == <<
    "Learner Development: Understands how learners grow and develop",
    "Learning Differences: Uses understanding of individual differences and diverse cultures",
    "Learning Environments: Works with others to create environments that support learning",
    "Content Knowledge: Understands the central concepts and tools of inquiry",
    "Application of Content: Connects concepts using differing perspectives",
    "Assessment: Understands and uses multiple methods of assessment",
    "Planning for Instruction: Plans instruction that supports every student",
    "Instructional Strategies: Understands and uses a variety of instructional strategies",
    "Professional Learning: Engages in ongoing professional learning",
    "Leadership and Collaboration: Seeks leadership roles and collaborates" >>

subject_templates ==
    [ s \in {"Elementary Education", "Mathematics", "English Language Arts",
             "Science", "Social Studies", "Special Education"} |->
      CASE s = "Elementary Education" -> <<
             "Demonstrate knowledge of child development and learning theory",
             "Apply effective instructional strategies for diverse learners",
             "Integrate literacy instruction across content areas",
             "Use formative and summative assessment to guide instruction",
             "Create inclusive and culturally responsive classroom environments",
             "Understand and teach mathematics concepts and problem-solving",
             "Implement science inquiry and investigation methods",
             "Teach social studies content and citizenship concepts",
             "Develop students' critical thinking and communication skills" >>
        [] s = "Mathematics" -> <<
             "Demonstrate deep understanding of mathematical concepts and procedures",
             "Apply mathematical reasoning and problem-solving strategies",
             "Connect mathematics to real-world applications and other disciplines",
             "Use technology to enhance mathematical learning",
             "Assess student understanding of mathematical concepts",
             "Differentiate instruction for diverse mathematical learners",
             "Teach number sense, operations, and algebraic thinking",
             "Develop geometric and spatial reasoning in students",
             "Apply statistical and probabilistic reasoning" >>
        [] s = "English Language Arts" -> <<
             "Demonstrate knowledge of reading processes and comprehension strategies",
             "Teach writing processes and composition across genres",
             "Develop students' speaking and listening skills",
             "Analyze and teach literary and informational texts",
             "Apply linguistics and language development principles",
             "Integrate technology and media literacy instruction",
             "Assess and support literacy development",
             "Differentiate instruction for diverse language learners" >>
        [] s = "Science" -> <<
             "Apply scientific inquiry and investigation methods",
             "Demonstrate content knowledge in physical sciences",
             "Demonstrate content knowledge in life sciences",
             "Demonstrate content knowledge in earth and space sciences",
             "Use technology and laboratory equipment safely and effectively",
             "Connect science concepts across disciplines",
             "Develop students' scientific reasoning and critical thinking",
             "Assess student understanding of scientific concepts" >>
        [] s = "Social Studies" -> <<
             "Teach historical thinking and chronological reasoning",
             "Develop students' geographic literacy and spatial thinking",
             "Apply civic knowledge and promote civic engagement",
             "Teach economic concepts and financial literacy",
             "Integrate primary and secondary source analysis",
             "Promote cultural awareness and global perspectives",
             "Use inquiry-based approaches to social studies instruction" >>
        [] s = "Special Education" -> <<
             "Understand characteristics of students with disabilities",
             "Apply individualized education program (IEP) development and implementation",
             "Use evidence-based instructional strategies for diverse learners",
             "Implement positive behavior supports and interventions",
             "Collaborate with families, educators, and service providers",
             "Apply assessment for eligibility, progress monitoring, and instruction",
             "Ensure access to general education curriculum",
             "Understand legal and ethical responsibilities in special education" >> ]

CONF_SUBJECT_TEMPLATE == 75

CONF_INTASC == 70

CONF_GENERIC == 60

CONF_FALLBACK == 40

INTASC_URL == "https://ccsso.org/intasc"

\* _get_generic_test_objectives(test_system, test_name)
get_generic_test_objectives(test_system, test_name) ==
    LET generic_objectives == <<
            "Demonstrate content knowledge in " \o test_name,
            "Apply pedagogical principles and instructional strategies",
            "Assess and evaluate student learning and progress",
            "Create inclusive and equitable learning environments",
            "Integrate technology and resources to enhance learning",
            "Collaborate with colleagues, families, and communities",
            "Engage in professional growth and ethical practice" >>
        sys == Lower(Chars(test_system))
    IN  IF Contains(sys, Chars("praxis"))
        THEN Append(generic_objectives,
                    "Apply Educational Testing Service (ETS) standards for teacher readiness")
        ELSE IF Contains(sys, Chars("nes"))
        THEN Append(generic_objectives,
                    "Meet state-specific educator preparation standards")
        ELSE generic_objectives

\* mutant of inferred_item: objective_index counted from one
inferred_item_one_based(idx, text, url, confidence, rationale) ==
    [ objective_index   |-> idx + 1,
      objective_text    |-> text,
      evidence_excerpt  |-> None,
      evidence_url      |-> url,
      is_inferred       |-> TRUE,
      confidence        |-> confidence,
      rationale         |-> rationale,
      validation_status |-> "inferred" ]

\* the dict each strategy appends for the idx-th text (enumerate is zero-based)
inferred_item(idx, text, url, confidence, rationale) ==
    [ objective_index   |-> idx,
      objective_text    |-> text,
      evidence_excerpt  |-> None,
      evidence_url      |-> url,
      is_inferred       |-> TRUE,
      confidence        |-> confidence,
      rationale         |-> rationale,
      validation_status |-> "inferred" ]

inferred_items(texts, url, confidence, rationale) ==
    [ k \in 1..Len(texts) |-> inferred_item(k - 1, texts[k], url, confidence, rationale) ]

Returned(v) == [raised |-> FALSE, value |-> v]

Raised(e) == [raised |-> TRUE, exc |-> e]

\* mutant of infer_candidates: the test-name branch is tried before the subject branch
infer_candidates_name_first(test_info) ==
    LET test_name   == Get(test_info, "test_name", "")
        subject     == Get(test_info, "subject_area", "")
        test_system == Get(test_info, "test_system", "")
    IN  IF test_name = None
        THEN Raised("'NoneType' object has no attribute 'lower'")
        ELSE IF \/ Contains(Lower(Chars(test_name)), Chars("elementary"))
                \/ Contains(Lower(Chars(test_name)), Chars("general"))
        THEN Returned(inferred_items(intasc_standards, INTASC_URL, CONF_INTASC,
                "Inferred from InTASC Model Core Teaching Standards, applicable to general teaching licenses"))
        ELSE IF Truthy(subject) /\ subject \in DOMAIN subject_templates
        THEN Returned(inferred_items(subject_templates[subject], None,
                CONF_SUBJECT_TEMPLATE,
                "Inferred from standard " \o subject
                    \o " teacher certification competency frameworks"))
        ELSE IF Truthy(test_system)
        THEN Returned(inferred_items(
                get_generic_test_objectives(test_system, test_name), None,
                CONF_GENERIC,
                "Inferred from typical " \o test_system
                    \o " test structure and common teacher competencies"))
        ELSE Returned(inferred_items(Prefix(intasc_standards, 5), INTASC_URL,
                CONF_FALLBACK,
                "Minimal inference based on general teaching standards; official objectives not found"))

\* infer_objectives up to the threshold filter: the list "inferred".
\* test_name.lower() raises AttributeError when test_name is None.
infer_candidates(test_info) ==
    LET test_name   == Get(test_info, "test_name", "")
        subject     == Get(test_info, "subject_area", "")
        test_system == Get(test_info, "test_system", "")
    IN  IF Truthy(subject) /\ subject \in DOMAIN subject_templates
        THEN Returned(inferred_items(subject_templates[subject], None,
                CONF_SUBJECT_TEMPLATE,
                "Inferred from standard " \o subject
                    \o " teacher certification competency frameworks"))
        ELSE IF test_name = None
        THEN Raised("'NoneType' object has no attribute 'lower'")
        ELSE IF \/ Contains(Lower(Chars(test_name)), Chars("elementary"))
                \/ Contains(Lower(Chars(test_name)), Chars("general"))
        THEN Returned(inferred_items(intasc_standards, INTASC_URL, CONF_INTASC,
                "Inferred from InTASC Model Core Teaching Standards, applicable to general teaching licenses"))
        ELSE IF Truthy(test_system)
        THEN Returned(inferred_items(
                get_generic_test_objectives(test_system, test_name), None,
                CONF_GENERIC,
                "Inferred from typical " \o test_system
                    \o " test structure and common teacher competencies"))
        ELSE Returned(inferred_items(Prefix(intasc_standards, 5), INTASC_URL,
                CONF_FALLBACK,
                "Minimal inference based on general teaching standards; official objectives not found"))

\* mutant of filter_by_confidence: the comparison is strict
RECURSIVE filter_by_confidence_strict(_, _)
filter_by_confidence_strict(inferred, confidence_threshold) ==
    IF inferred = <<>> THEN <<>>
    ELSE LET rest == filter_by_confidence_strict(Tail(inferred), confidence_threshold)
         IN  IF Head(inferred).confidence > confidence_threshold
             THEN <<Head(inferred)>> \o rest
             ELSE rest

\* [obj for obj in inferred if obj['confidence'] >= confidence_threshold]
RECURSIVE filter_by_confidence(_, _)
filter_by_confidence(inferred, confidence_threshold) ==
    IF inferred = <<>> THEN <<>>
    ELSE LET rest == filter_by_confidence(Tail(inferred), confidence_threshold)
         IN  IF Head(inferred).confidence >= confidence_threshold
             THEN <<Head(inferred)>> \o rest
             ELSE rest

infer_objectives(test_info, confidence_threshold) ==
    LET inferred == infer_candidates(test_info)
    IN  IF inferred.raised THEN inferred
        ELSE Returned(filter_by_confidence(inferred.value, confidence_threshold))


-----------------------------------------------------------------------------
(* scripts/validation.py: ValidationEngine.validate_objective *)

MIN_WORDS == 6

action_verbs == <<
    "understand", "demonstrate", "apply", "analyze", "evaluate",
    "identify", "explain", "describe", "compare", "create",
    "develop", "design", "implement", "use", "integrate",
    "teach", "assess", "plan", "collaborate", "communicate" >>

boilerplate_phrases == <<
    "click here", "read more", "download", "next page",
    "table of contents", "copyright", "all rights reserved" >>

\* any(p in text for p in patterns), text given by its characters
ContainsAny(cs, patterns) ==
    \E k \in 1..Len(patterns) : Contains(cs, Chars(patterns[k]))

\* str() of a confidence kept in hundredths: 75 is "0.75", 40 is "0.4", 100 is "1.0"
FormatConfidence(c) ==
    LET a    == IF c < 0 THEN -c ELSE c
        frac == a % 100
    IN  (IF c < 0 THEN "-" ELSE "") \o ToString(a \div 100) \o "." \o
        (IF frac % 10 = 0 THEN ToString(frac \div 10)
         ELSE IF frac < 10 THEN "0" \o ToString(frac)
         ELSE ToString(frac))

\* what validate_objective reads off the text of an objective, for every text
\* of the character table: len(obj_text.split()) and the two any(...) tests
text_checks ==
    [ s \in DOMAIN CharTable |->
        [ word_count      |-> WordCount(Chars(s)),
          has_action      |-> ContainsAny(Lower(Chars(s)), action_verbs),
          has_boilerplate |-> ContainsAny(Lower(Chars(s)), boilerplate_phrases) ] ]

\* mutant of validate_objective: confidence and rationale are checked whatever
\* is_inferred says
validate_objective_any_provenance(objective_data) ==
    LET obj_text   == Get(objective_data, "objective_text", "")
        word_count == text_checks[obj_text].word_count
        confidence == Get(objective_data, "confidence", 0)
        short      == IF word_count < MIN_WORDS
                      THEN <<"Objective too short (" \o ToString(word_count)
                               \o " words, minimum 6)">>
                      ELSE <<>>
        noverb     == IF ~text_checks[obj_text].has_action
                      THEN <<"No clear action verb found">>
                      ELSE <<>>
        boiler     == IF text_checks[obj_text].has_boilerplate
                      THEN <<"Contains boilerplate/navigation text">>
                      ELSE <<>>
        badconf    == IF TRUE
                         /\ ~(0 <= confidence /\ confidence <= 100)
                      THEN <<"Invalid confidence score: " \o FormatConfidence(confidence)>>
                      ELSE <<>>
        norat      == IF TRUE
                         /\ ~Truthy(Get(objective_data, "rationale", None))
                      THEN <<"Inferred objective missing rationale">>
                      ELSE <<>>
        issues     == short \o noverb \o boiler \o badconf \o norat
    IN  [is_valid |-> Len(issues) = 0, issues |-> issues]

validate_objective(objective_data) ==
    LET obj_text   == Get(objective_data, "objective_text", "")
        word_count == text_checks[obj_text].word_count
        confidence == Get(objective_data, "confidence", 0)
        short      == IF word_count < MIN_WORDS
                      THEN <<"Objective too short (" \o ToString(word_count)
                               \o " words, minimum 6)">>
                      ELSE <<>>
        noverb     == IF ~text_checks[obj_text].has_action
                      THEN <<"No clear action verb found">>
                      ELSE <<>>
        boiler     == IF text_checks[obj_text].has_boilerplate
                      THEN <<"Contains boilerplate/navigation text">>
                      ELSE <<>>
        badconf    == IF Get(objective_data, "is_inferred", FALSE)
                         /\ ~(0 <= confidence /\ confidence <= 100)
                      THEN <<"Invalid confidence score: " \o FormatConfidence(confidence)>>
                      ELSE <<>>
        norat      == IF Get(objective_data, "is_inferred", FALSE)
                         /\ ~Truthy(Get(objective_data, "rationale", None))
                      THEN <<"Inferred objective missing rationale">>
                      ELSE <<>>
        issues     == short \o noverb \o boiler \o badconf \o norat
    IN  [is_valid |-> Len(issues) = 0, issues |-> issues]


-----------------------------------------------------------------------------
(* Bounds of the model and the inputs it draws *)

\* the longest list of units handed to run_full_pipeline
MaxUnits == 2

\* a fault plan hits one of the first MaxNth calls of a store method
MaxNth == 3

\* (state_name, state_abbrev) pairs; the third repeats the abbreviation of the first
UnitCatalog == { <<"Alabama", "AL">>, <<"Alaska", "AK">>, <<"Arizona", "AL">> }

UnitLists == UNION { [1..n -> UnitCatalog] : n \in 0..MaxUnits }

StoreMethods == {"upsert_state", "start_audit", "upsert_test", "insert_objective",
                 "complete_audit"}

\* The environment of one run: no fault, or the nth call of one store method
\* raises; a persistent fault leaves the store unusable, so that every later
\* call of any store method raises as well.
NoFault == [op |-> "none", nth |-> 0, persistent |-> FALSE]

FaultPlans == {NoFault} \cup [op : StoreMethods, nth : 1..MaxNth, persistent : BOOLEAN]

\* str(e) of the exception a faulty store call raises
FaultMessage == "database is locked"

Fails(op) == down \/ (fault.op = op /\ seen + 1 = fault.nth)

\* the fault bookkeeping of one call of store method op
StoreCall(op) ==
    /\ seen' = IF fault.op = op THEN seen + 1 ELSE seen
    /\ down' = (down \/ (Fails(op) /\ fault.persistent))

NoStoreCall == UNCHANGED <<seen, down>>

-----------------------------------------------------------------------------
(* scripts/database.py: ObjectivesDatabase *)

\* INSERT OR IGNORE INTO states: the row is ignored when name or abbrev exists
states_after_insert(name, abbrev) ==
    IF \E r \in states_tbl : r.name = name \/ r.abbrev = abbrev
    THEN states_tbl
    ELSE states_tbl \cup {[id |-> seq.states + 1, name |-> name, abbrev |-> abbrev]}

\* a NULL test_code never equals another test_code in UNIQUE(state_id,
\* test_system, test_name, test_code)
test_conflicts(r, test_data) ==
    /\ r.state_id = test_data.state_id
    /\ r.test_system = test_data.test_system
    /\ r.test_name = test_data.test_name
    /\ Get(test_data, "test_code", None) # None
    /\ r.test_code = Get(test_data, "test_code", None)

test_row(id, test_data) ==
    [ id                  |-> id,
      state_id            |-> test_data.state_id,
      test_system         |-> test_data.test_system,
      test_name           |-> test_data.test_name,
      test_code           |-> Get(test_data, "test_code", None),
      subject_area        |-> Get(test_data, "subject_area", None),
      grade_band          |-> Get(test_data, "grade_band", None),
      official_source_url |-> Get(test_data, "official_source_url", None),
      provider            |-> Get(test_data, "provider", None),
      source_last_updated |-> Get(test_data, "source_last_updated", None) ]

\* INSERT INTO tests ... ON CONFLICT(...) DO UPDATE SET <the metadata columns>
tests_after_upsert(test_data) ==
    IF \E r \in tests_tbl : test_conflicts(r, test_data)
    THEN { IF test_conflicts(r, test_data) THEN test_row(r.id, test_data) ELSE r
           : r \in tests_tbl }
    ELSE tests_tbl \cup {test_row(seq.tests + 1, test_data)}

\* cursor.lastrowid after the upsert: the new row's id when a row was inserted,
\* else still the rowid of the connection's last INSERT, whatever its table
lastrowid_after_upsert(test_data) ==
    IF \E r \in tests_tbl : test_conflicts(r, test_data)
    THEN lastrowid
    ELSE seq.tests + 1

objective_row(id, objective_data) ==
    [ id                |-> id,
      test_id           |-> objective_data.test_id,
      objective_index   |-> objective_data.objective_index,
      objective_text    |-> objective_data.objective_text,
      evidence_excerpt  |-> Get(objective_data, "evidence_excerpt", None),
      evidence_url      |-> Get(objective_data, "evidence_url", None),
      evidence_locator  |-> Get(objective_data, "evidence_locator", None),
      is_inferred       |-> Get(objective_data, "is_inferred", FALSE),
      confidence        |-> Get(objective_data, "confidence", 100),
      rationale         |-> Get(objective_data, "rationale", None),
      validation_status |-> Get(objective_data, "validation_status", "verified"),
      validator_notes   |-> Get(objective_data, "validator_notes", None) ]

\* INSERT INTO audits (state_id, status, run_started_at) VALUES (?, 'running', ?)
audit_row(id, sid) ==
    [ id                  |-> id,
      state_id            |-> sid,
      status              |-> "running",
      tests_found         |-> 0,
      objectives_found    |-> 0,
      objectives_inferred |-> 0,
      queries_run         |-> 0,
      ended               |-> FALSE,
      notes               |-> None ]

\* mutant of audit_selected: the UPDATE selects by the unit, WHERE state_id = ?
audit_selected_by_state(r, aid) ==
    \E q \in audits_tbl : q.id = aid /\ q.state_id = r.state_id

\* the rows the UPDATE of complete_audit touches: WHERE id = ?
audit_selected(r, aid) == r.id = aid

\* UPDATE audits SET status, the four counts, run_ended_at, notes WHERE id = ?
complete_audit(aid, status, cnts, notes) ==
    { IF audit_selected(r, aid)
      THEN [ r EXCEPT !.status              = status,
                      !.tests_found         = Get(cnts, "tests_found", 0),
                      !.objectives_found    = Get(cnts, "objectives_found", 0),
                      !.objectives_inferred = Get(cnts, "objectives_inferred", 0),
                      !.queries_run         = Get(cnts, "queries_run", 0),
                      !.ended               = TRUE,
                      !.notes               = notes ]
      ELSE r
      : r \in audits_tbl }


-----------------------------------------------------------------------------
(* scripts/main.py: ObjectivesOrchestrator *)

\* str.lower() of a string
LowerStr(str) ==
    LET RECURSIVE Join(_)
        Join(cs) == IF cs = <<>> THEN "" ELSE Head(cs) \o Join(Tail(cs))
    IN  Join(Lower(Chars(str)))

generate_sample_tests(state_name, state_abbrev) == <<
    [ test_system         |-> "Praxis",
      test_name           |-> "Elementary Education: Multiple Subjects",
      test_code           |-> "5001",
      subject_area        |-> "Elementary Education",
      grade_band          |-> "K-6",
      provider            |-> "ETS",
      official_source_url |-> "https://www.ets.org/praxis/prepare/materials/5001",
      source_last_updated |-> "2024" ],
    [ test_system         |-> "Praxis",
      test_name           |-> "Mathematics: Content Knowledge",
      test_code           |-> "5161",
      subject_area        |-> "Mathematics",
      grade_band          |-> "7-12",
      provider            |-> "ETS",
      official_source_url |-> "https://www.ets.org/praxis/prepare/materials/5161",
      source_last_updated |-> "2024" ],
    [ test_system         |-> state_abbrev \o " State Exam",
      test_name           |-> state_name \o " Teaching Foundations",
      test_code           |-> None,
      subject_area        |-> "General Education",
      grade_band          |-> "All",
      provider            |-> "State DOE",
      official_source_url |-> "https://" \o LowerStr(state_abbrev)
                                \o ".gov/education/teacher-certification",
      source_last_updated |-> "2024" ] >>

\* the tests of the unit being processed, each with test_data['state_id'] = state_id
sample_tests ==
    LET tests == generate_sample_tests(units[i][1], units[i][2])
    IN  [ k \in 1..Len(tests) |-> [state_id |-> state_id] @@ tests[k] ]

new_counts ==
    [tests_found |-> 0, objectives_found |-> 0, objectives_inferred |-> 0,
     queries_run |-> 0]

new_total_counts ==
    [states_processed |-> 0, total_tests |-> 0, total_objectives |-> 0,
     total_verified |-> 0, total_inferred |-> 0]

test_info_of(test_data) ==
    [ test_name           |-> test_data.test_name,
      test_system         |-> test_data.test_system,
      subject_area        |-> test_data.subject_area,
      official_source_url |-> Get(test_data, "official_source_url", None) ]

\* mutant of ps_confidence_threshold: a threshold above every strategy's confidence
ps_confidence_threshold_high == 40 + 40

\* the threshold process_state passes to infer_objectives (0.4)
ps_confidence_threshold == 40

\* mutant of engines_called: extraction is attempted before inference
engines_called_extract_first == <<"extract_objectives", "infer_objectives">>

\* the engines process_state calls to obtain the objectives of one test, in order
engines_called == <<"infer_objectives">>

\* the objectives process_state obtains for one test
objectives_for(test_data) ==
    infer_objectives(test_info_of(test_data), ps_confidence_threshold)

\* mutant of tally: an inferred objective is stored but not counted
tally_inferred_dropped(cnts, obj) ==
    IF Get(obj, "is_inferred", FALSE)
    THEN cnts
    ELSE [cnts EXCEPT !.objectives_found = @ + 1]

\* counts after one accepted objective was stored
tally(cnts, obj) ==
    IF Get(obj, "is_inferred", FALSE)
    THEN [cnts EXCEPT !.objectives_inferred = @ + 1]
    ELSE [cnts EXCEPT !.objectives_found = @ + 1]

\* mutant of completion_status: the two statuses exchanged
completion_status_inverted(cnts) ==
    IF cnts.tests_found > 0 THEN "partial" ELSE "complete"

\* status = 'complete' if counts['tests_found'] > 0 else 'partial'
completion_status(cnts) ==
    IF cnts.tests_found > 0 THEN "complete" ELSE "partial"

completion_notes(cnts) ==
    "Demo mode: generated " \o ToString(cnts.tests_found) \o " tests"

ps_locals == <<state_id, audit_id, counts, t, test_id, objectives, j, exc>>

store == <<states_tbl, tests_tbl, objectives_tbl, audits_tbl, seq, lastrowid>>

history == <<inserted_in, engine_log>>

\* run_full_pipeline(states_to_process) is called on a fresh orchestrator
RunFullPipeline ==
    /\ pc = "idle"
    /\ \E u \in UnitLists, f \in FaultPlans :
          /\ units' = u
          /\ fault' = f
    /\ total_counts' = new_total_counts
    /\ i' = 1
    /\ pc' = "rfp_loop"
    /\ UNCHANGED <<seen, down, ps_locals, result, store, history, fn_vars>>

\* run_full_pipeline calls process_state for the next unit, which begins with
\* upsert_state, outside its try block: an exception leaves run_full_pipeline.
\* upsert_state raises TypeError when the INSERT was ignored because of the
\* abbreviation and no row has the name: fetchone() is None.
UpsertState ==
    /\ pc = "rfp_loop"
    /\ i <= Len(units)
    /\ StoreCall("upsert_state")
    /\ LET name   == units[i][1]
           abbrev == units[i][2]
           after  == states_after_insert(name, abbrev)
       IN  IF Fails("upsert_state")
           THEN /\ pc' = "aborted"
                /\ exc' = FaultMessage
                /\ UNCHANGED <<state_id, store>>
           ELSE /\ states_tbl' = after
                /\ seq' = [seq EXCEPT !.states = @ + 1]
                /\ lastrowid' = IF after # states_tbl THEN seq.states + 1 ELSE lastrowid
                /\ IF \E r \in after : r.name = name
                   THEN /\ state_id' = (CHOOSE r \in after : r.name = name).id
                        /\ pc' = "ps_start_audit"
                        /\ UNCHANGED exc
                   ELSE /\ pc' = "aborted"
                        /\ exc' = "'NoneType' object is not subscriptable"
                        /\ UNCHANGED state_id
                /\ UNCHANGED <<tests_tbl, objectives_tbl, audits_tbl>>
    /\ UNCHANGED <<units, fault, i, audit_id, counts, t, test_id, objectives, j,
                   total_counts, result, history, fn_vars>>

\* start_audit, still outside the try block; then counts and the try block begin
StartAudit ==
    /\ pc = "ps_start_audit"
    /\ StoreCall("start_audit")
    /\ IF Fails("start_audit")
       THEN /\ pc' = "aborted"
            /\ exc' = FaultMessage
            /\ UNCHANGED <<audit_id, counts, t, store>>
       ELSE /\ audits_tbl' = audits_tbl \cup {audit_row(seq.audits + 1, state_id)}
            /\ seq' = [seq EXCEPT !.audits = @ + 1]
            /\ lastrowid' = seq.audits + 1
            /\ audit_id' = seq.audits + 1
            /\ counts' = new_counts
            /\ t' = 1
            /\ exc' = None
            /\ pc' = "ps_test"
            /\ UNCHANGED <<states_tbl, tests_tbl, objectives_tbl>>
    /\ UNCHANGED <<units, fault, i, state_id, test_id, objectives, j,
                   total_counts, result, history, fn_vars>>

\* one turn of "for test_data in sample_tests" up to the objectives loop:
\* upsert_test, the tests_found tally, the engine call
ProcessTest ==
    /\ pc = "ps_test"
    /\ t <= Len(sample_tests)
    /\ StoreCall("upsert_test")
    /\ LET test_data == sample_tests[t]
           objs      == objectives_for(test_data)
       IN  IF Fails("upsert_test")
           THEN /\ exc' = FaultMessage
                /\ pc' = "ps_except"
                /\ UNCHANGED <<counts, t, test_id, objectives, j, store, engine_log>>
           ELSE /\ tests_tbl' = tests_after_upsert(test_data)
                /\ seq' = [seq EXCEPT !.tests = @ + 1]
                /\ lastrowid' = lastrowid_after_upsert(test_data)
                /\ test_id' = lastrowid_after_upsert(test_data)
                /\ counts' = [counts EXCEPT !.tests_found = @ + 1]
                /\ engine_log' = engine_log \o
                       [ k \in 1..Len(engines_called) |->
                           [audit_id |-> audit_id, test |-> t,
                            engine |-> engines_called[k]] ]
                /\ IF objs.raised
                   THEN /\ exc' = objs.exc
                        /\ pc' = "ps_except"
                        /\ UNCHANGED <<t, objectives, j>>
                   ELSE /\ objectives' = objs.value
                        /\ j' = 1
                        /\ t' = IF Len(objs.value) = 0 THEN t + 1 ELSE t
                        /\ pc' = IF Len(objs.value) = 0 THEN "ps_test" ELSE "ps_objective"
                        /\ UNCHANGED exc
                /\ UNCHANGED <<states_tbl, objectives_tbl, audits_tbl>>
    /\ UNCHANGED <<units, fault, i, state_id, audit_id, total_counts, result,
                   inserted_in, fn_vars>>

\* mutant of ProcessObjective: every objective is stored, whatever the validation says
ProcessObjective_ungated ==
    /\ pc = "ps_objective"
    /\ LET obj    == [test_id |-> test_id] @@ objectives[j]
           valid  == TRUE
           more   == j < Len(objectives)
       IN  IF valid /\ Fails("insert_objective")
           THEN /\ StoreCall("insert_objective")
                /\ exc' = FaultMessage
                /\ pc' = "ps_except"
                /\ UNCHANGED <<counts, t, j, store, inserted_in>>
           ELSE /\ IF valid
                   THEN /\ StoreCall("insert_objective")
                        /\ objectives_tbl' = objectives_tbl \cup
                               {objective_row(seq.objectives + 1, obj)}
                        /\ seq' = [seq EXCEPT !.objectives = @ + 1]
                        /\ lastrowid' = seq.objectives + 1
                        /\ inserted_in' = inserted_in \cup
                               {<<seq.objectives + 1, audit_id>>}
                        /\ counts' = tally(counts, obj)
                   ELSE /\ NoStoreCall
                        /\ UNCHANGED <<objectives_tbl, seq, lastrowid, inserted_in,
                                       counts>>
                /\ j' = IF more THEN j + 1 ELSE j
                /\ t' = IF more THEN t ELSE t + 1
                /\ pc' = IF more THEN "ps_objective" ELSE "ps_test"
                /\ UNCHANGED <<exc, states_tbl, tests_tbl, audits_tbl>>
    /\ UNCHANGED <<units, fault, i, state_id, audit_id, test_id, objectives,
                   total_counts, result, engine_log, fn_vars>>

\* one turn of "for obj in objectives": validate, and store and tally if valid
ProcessObjective ==
    /\ pc = "ps_objective"
    /\ LET obj    == [test_id |-> test_id] @@ objectives[j]
           valid  == validate_objective(objectives[j]).is_valid
           more   == j < Len(objectives)
       IN  IF valid /\ Fails("insert_objective")
           THEN /\ StoreCall("insert_objective")
                /\ exc' = FaultMessage
                /\ pc' = "ps_except"
                /\ UNCHANGED <<counts, t, j, store, inserted_in>>
           ELSE /\ IF valid
                   THEN /\ StoreCall("insert_objective")
                        /\ objectives_tbl' = objectives_tbl \cup
                               {objective_row(seq.objectives + 1, obj)}
                        /\ seq' = [seq EXCEPT !.objectives = @ + 1]
                        /\ lastrowid' = seq.objectives + 1
                        /\ inserted_in' = inserted_in \cup
                               {<<seq.objectives + 1, audit_id>>}
                        /\ counts' = tally(counts, obj)
                   ELSE /\ NoStoreCall
                        /\ UNCHANGED <<objectives_tbl, seq, lastrowid, inserted_in,
                                       counts>>
                /\ j' = IF more THEN j + 1 ELSE j
                /\ t' = IF more THEN t ELSE t + 1
                /\ pc' = IF more THEN "ps_objective" ELSE "ps_test"
                /\ UNCHANGED <<exc, states_tbl, tests_tbl, audits_tbl>>
    /\ UNCHANGED <<units, fault, i, state_id, audit_id, test_id, objectives,
                   total_counts, result, engine_log, fn_vars>>

\* after the last test: the success path closes the audit
CompleteAudit ==
    /\ pc = "ps_test"
    /\ t > Len(sample_tests)
    /\ StoreCall("complete_audit")
    /\ IF Fails("complete_audit")
       THEN /\ exc' = FaultMessage
            /\ pc' = "ps_except"
            /\ UNCHANGED store
       ELSE /\ audits_tbl' = complete_audit(audit_id, completion_status(counts),
                                            counts, completion_notes(counts))
            /\ pc' = "ps_return"
            /\ UNCHANGED <<exc, states_tbl, tests_tbl, objectives_tbl, seq, lastrowid>>
    /\ UNCHANGED <<units, fault, i, state_id, audit_id, counts, t, test_id,
                   objectives, j, total_counts, result, history, fn_vars>>

\* except Exception as e: complete_audit(audit_id, 'error', counts, str(e));
\* an exception of this call leaves process_state and run_full_pipeline
HandleException ==
    /\ pc = "ps_except"
    /\ StoreCall("complete_audit")
    /\ IF Fails("complete_audit")
       THEN /\ pc' = "aborted"
            /\ exc' = FaultMessage
            /\ UNCHANGED store
       ELSE /\ audits_tbl' = complete_audit(audit_id, "error", counts, exc)
            /\ pc' = "ps_return"
            /\ UNCHANGED <<exc, states_tbl, tests_tbl, objectives_tbl, seq, lastrowid>>
    /\ UNCHANGED <<units, fault, i, state_id, audit_id, counts, t, test_id,
                   objectives, j, total_counts, result, history, fn_vars>>

\* mutant of Aggregate: inferred objectives are left out of total_objectives
Aggregate_without_inferred ==
    /\ pc = "ps_return"
    /\ total_counts' =
         [ total_counts EXCEPT
             !.states_processed = @ + 1,
             !.total_tests      = @ + counts.tests_found,
             !.total_objectives = @ + counts.objectives_found,
             !.total_verified   = @ + counts.objectives_found,
             !.total_inferred   = @ + counts.objectives_inferred ]
    /\ i' = i + 1
    /\ pc' = "rfp_loop"
    /\ UNCHANGED <<units, fault, seen, down, ps_locals, result, store, history,
                   fn_vars>>

\* process_state returns counts; run_full_pipeline adds them to total_counts
Aggregate ==
    /\ pc = "ps_return"
    /\ total_counts' =
         [ total_counts EXCEPT
             !.states_processed = @ + 1,
             !.total_tests      = @ + counts.tests_found,
             !.total_objectives = @ + counts.objectives_found
                                    + counts.objectives_inferred,
             !.total_verified   = @ + counts.objectives_found,
             !.total_inferred   = @ + counts.objectives_inferred ]
    /\ i' = i + 1
    /\ pc' = "rfp_loop"
    /\ UNCHANGED <<units, fault, seen, down, ps_locals, result, store, history,
                   fn_vars>>

\* after the last unit: the reports are written and total_counts is returned
FinishRun ==
    /\ pc = "rfp_loop"
    /\ i > Len(units)
    /\ result' = [called |-> TRUE, value |-> total_counts]
    /\ pc' = "returned"
    /\ UNCHANGED <<units, fault, seen, down, i, ps_locals, total_counts, store,
                   history, fn_vars>>

PipelineInit ==
    /\ pc = "idle"
    /\ units = <<>>
    /\ fault = NoFault
    /\ seen = 0
    /\ down = FALSE
    /\ i = 0
    /\ state_id = None
    /\ audit_id = None
    /\ counts = new_counts
    /\ t = 0
    /\ test_id = None
    /\ objectives = <<>>
    /\ j = 0
    /\ exc = None
    /\ total_counts = new_total_counts
    /\ result = NotCalled
    /\ states_tbl = {}
    /\ tests_tbl = {}
    /\ objectives_tbl = {}
    /\ audits_tbl = {}
    /\ seq = [states |-> 0, tests |-> 0, objectives |-> 0, audits |-> 0]
    /\ lastrowid = 0
    /\ inserted_in = {}
    /\ engine_log = <<>>

Init ==
    /\ PipelineInit
    /\ fn_args = NotCalled
    /\ fn_ret = NotCalled

Next ==
    \/ RunFullPipeline
    \/ UpsertState
    \/ StartAudit
    \/ ProcessTest
    \/ ProcessObjective
    \/ CompleteAudit
    \/ HandleException
    \/ Aggregate
    \/ FinishRun

Spec == Init /\ [][Next]_vars


-----------------------------------------------------------------------------
(* Direct calls of InferenceEngine.infer_objectives *)

Absent == "<absent>"

\* the dict with the given values, without the keys whose value is Absent
test_info_with(test_name, subject_area, test_system) ==
    LET all == [test_name |-> test_name, subject_area |-> subject_area,
                test_system |-> test_system]
    IN  [ k \in {k \in DOMAIN all : all[k] # Absent} |-> all[k] ]

TestNameInputs == {Absent, None, "", "Elementary Education: Multiple Subjects",
                   "General Science", "ELEMENTARY Methods", "Physics"}

SubjectInputs == {Absent, None, "", "Mathematics", "Science", "General Education"}

TestSystemInputs == {Absent, None, "", "Praxis", "NES", "AL State Exam"}

ThresholdInputs == {0, 40, 41, 60, 70, 75, 76, 100}

TestInfoInputs ==
    { test_info_with(n, s, y) :
        n \in TestNameInputs, s \in SubjectInputs, y \in TestSystemInputs }

InferInit ==
    /\ PipelineInit
    /\ fn_args \in [test_info : TestInfoInputs, confidence_threshold : ThresholdInputs]
    /\ fn_ret = NotCalled

\* infer_objectives(test_info, confidence_threshold); "inferred" is its local
\* list before the threshold filter
CallInferObjectives ==
    /\ ~fn_ret.called
    /\ fn_ret' = [ called   |-> TRUE,
                   inferred |-> infer_candidates(fn_args.test_info),
                   result   |-> infer_objectives(fn_args.test_info,
                                                 fn_args.confidence_threshold) ]
    /\ UNCHANGED <<pipeline_vars, fn_args>>

InferNext == CallInferObjectives

InferSpec == InferInit /\ [][InferNext]_vars


-----------------------------------------------------------------------------
(* Properties *)

Terminal == {"complete", "partial", "error"}

\* the audit row of the unit being processed
current_audit == CHOOSE r \in audits_tbl : r.id = audit_id

\* the objective rows inserted during the run that owns audit aid
inserted_during(aid) == {p \in inserted_in : p[2] = aid}

\* C1: a failure at any step of one unit's processing never aborts the batch:
\* run_full_pipeline never ends by an exception, and when it has returned it
\* has called process_state for every unit of the list and returns the totals.
C1_BatchNeverAborts ==
    /\ pc # "aborted"
    /\ pc = "returned" =>
          /\ result.called
          /\ result.value = total_counts
          /\ total_counts.states_processed = Len(units)

\* C2: an audit row is created with status 'running' and is written to a
\* terminal status at most once: only a running row ever changes, it changes to
\* a terminal status, and a row with a terminal status stays as it is for good.
C2_AuditTerminalOnce ==
    [][ /\ \A r \in audits_tbl' :
              (~\E q \in audits_tbl : q.id = r.id) =>
                  /\ r.status = "running"
                  /\ r.tests_found = 0 /\ r.objectives_found = 0
                  /\ r.objectives_inferred = 0 /\ r.notes = None
        /\ \A q \in audits_tbl :
              \/ q \in audits_tbl'
              \/ /\ q.status = "running"
                 /\ \E r \in audits_tbl' : r.id = q.id /\ r.status \in Terminal
      ]_vars

\* C2 witness: a unit was processed twice and both of its audits are closed
C2_Witness ==
    \E a, b \in audits_tbl :
        /\ a.id < b.id
        /\ a.state_id = b.state_id
        /\ a.status \in Terminal
        /\ b.status \in Terminal
        /\ a.status # b.status

\* C3: no audit is left 'running' once the processing of its unit has ended:
\* a running audit is the audit of the unit process_state is working on.
C3_NoAuditLeftRunning ==
    \A r \in audits_tbl :
        r.status = "running" =>
            /\ pc \in {"ps_test", "ps_objective", "ps_except"}
            /\ r.id = audit_id

\* C4: an audit closed 'complete' or 'partial' belongs to a run that stored at
\* least one accepted objective.
C4_NeverFail ==
    \A r \in audits_tbl :
        r.status \in {"complete", "partial"} =>
            \E p \in inserted_during(r.id) :
                \E o \in objectives_tbl : o.id = p[1]

\* C4 witness: an audit was closed with a status other than 'error'
C4_Witness ==
    \E r \in audits_tbl :
        /\ r.status \in {"complete", "partial"}
        /\ inserted_during(r.id) # {}

\* C5: for every closed audit, whatever its terminal status, objectives_found +
\* objectives_inferred is the number of objectives its run stored.
C5_AuditCounts ==
    \A r \in audits_tbl :
        r.status \in Terminal =>
            r.objectives_found + r.objectives_inferred
                = Cardinality(inserted_during(r.id))

\* C5 witness: an audit closed 'error' after some objectives had been stored,
\* next to an audit closed 'complete'
C5_Witness ==
    \E a, b \in audits_tbl :
        /\ a.status = "error"
        /\ Cardinality(inserted_during(a.id)) > 0
        /\ b.status = "complete"
        /\ Cardinality(inserted_during(b.id)) > 0

\* C6: when process_state ends without having caught an exception, its audit
\* is 'complete' exactly if tests_found > 0 and 'partial' exactly if it is 0,
\* and never 'error'.
C6_SuccessStatus ==
    (pc = "ps_return" /\ exc = None) =>
        /\ current_audit.status = "complete" <=> current_audit.tests_found > 0
        /\ current_audit.status = "partial" <=> current_audit.tests_found = 0
        /\ current_audit.status # "error"
        /\ current_audit.tests_found = counts.tests_found

\* C6 witness: a unit ended on the success path with tests produced
C6_Witness ==
    /\ pc = "ps_return"
    /\ exc = None
    /\ counts.tests_found > 0
    /\ current_audit.status = "complete"

\* C7: an exception raised inside a unit's processing after its audit was
\* started does not leave process_state: the step that follows the raise ends
\* process_state normally, with the audit closed 'error', its notes the failure
\* message and its counts the tallies made before the failure.
C7_ExceptionClosesAudit ==
    [][ pc = "ps_except" =>
          /\ pc' = "ps_return"
          /\ \E r \in audits_tbl' :
                /\ r.id = audit_id
                /\ r.status = "error"
                /\ r.notes = exc
                /\ r.tests_found = counts.tests_found
                /\ r.objectives_found = counts.objectives_found
                /\ r.objectives_inferred = counts.objectives_inferred
      ]_vars

\* the calls of engine e that process_state made for test k of the run of audit aid
engine_calls(aid, k, e) ==
    {n \in 1..Len(engine_log) :
        /\ engine_log[n].audit_id = aid
        /\ engine_log[n].test = k
        /\ engine_log[n].engine = e}

C9_InferTotalNonEmpty ==
    fn_ret.called =>
        /\ ~fn_ret.result.raised
        /\ ~fn_ret.inferred.raised
        /\ Len(fn_ret.inferred.value) >= 1

\* the strategy the claim selects: the first whose condition holds, among
\* (1) known subject, (2) name holds 'elementary' or 'general', (3) system
\* present, (4) otherwise
claimed_strategy(test_info) ==
    LET name    == Get(test_info, "test_name", "")
        subject == Get(test_info, "subject_area", "")
        system  == Get(test_info, "test_system", "")
    IN  IF subject \in {"Elementary Education", "Mathematics",
                        "English Language Arts", "Science", "Social Studies",
                        "Special Education"}
        THEN 1
        ELSE IF \/ Contains(Lower(Chars(name)), Chars("elementary"))
                \/ Contains(Lower(Chars(name)), Chars("general"))
        THEN 2
        ELSE IF system # "" /\ system # None
        THEN 3
        ELSE 4

claimed_confidence == <<75, 70, 60, 40>>

claimed_texts(k, test_info) ==
    CASE k = 1 -> subject_templates[test_info.subject_area]
      [] k = 2 -> intasc_standards
      [] k = 3 -> get_generic_test_objectives(test_info.test_system,
                                              Get(test_info, "test_name", ""))
      [] k = 4 -> SubSeq(intasc_standards, 1, 5)

\* C10: whenever infer_objectives returns, the items it built are those of
\* exactly one strategy, the first matching one in the fixed order, each with
\* that strategy's confidence (0.75, 0.70, 0.60, 0.40), in the strategy's order.
C10_FirstMatchingStrategy ==
    (fn_ret.called /\ ~fn_ret.inferred.raised) =>
        LET k     == claimed_strategy(fn_args.test_info)
            items == fn_ret.inferred.value
            texts == claimed_texts(k, fn_args.test_info)
        IN  /\ Len(items) = Len(texts)
            /\ \A n \in 1..Len(items) :
                  /\ items[n].objective_text = texts[n]
                  /\ items[n].confidence = claimed_confidence[k]
            /\ \A n \in 1..Len(fn_ret.result.value) :
                  fn_ret.result.value[n].confidence = claimed_confidence[k]

\* C10 witness: a known subject with a test name that holds 'general' got the
\* subject template alone
C10_Witness ==
    /\ fn_ret.called
    /\ Get(fn_args.test_info, "subject_area", "") = "Science"
    /\ Get(fn_args.test_info, "test_name", "") = "General Science"
    /\ ~fn_ret.inferred.raised
    /\ Len(fn_ret.result.value) = Len(subject_templates["Science"])
    /\ \A n \in 1..Len(fn_ret.result.value) :
          fn_ret.result.value[n].confidence = 75

\* C11: the threshold filter is inclusive: what infer_objectives returns is
\* exactly the sub-list of the items it built whose confidence is at least the
\* threshold; with threshold 0.4 the result is never empty, and for the empty
\* test_info it is the first five general teaching standards at 0.40.
C11_InclusiveThreshold ==
    (fn_ret.called /\ ~fn_ret.result.raised) =>
        LET thr     == fn_args.confidence_threshold
            items   == fn_ret.inferred.value
            Kept(o) == o.confidence >= thr
            res     == fn_ret.result.value
        IN  /\ res = SelectSeq(items, Kept)
            /\ thr = 40 => Len(res) >= 1
            /\ (thr = 40 /\ DOMAIN fn_args.test_info = {}) =>
                  /\ Len(res) = 5
                  /\ \A n \in 1..5 :
                        /\ res[n].objective_text = intasc_standards[n]
                        /\ res[n].confidence = 40

\* C11 witness: the empty test_info at threshold 0.4, whose items sit exactly
\* on the threshold, came back with its five items
C11_Witness ==
    /\ fn_ret.called
    /\ DOMAIN fn_args.test_info = {}
    /\ fn_args.confidence_threshold = 40
    /\ ~fn_ret.result.raised
    /\ Len(fn_ret.result.value) = 5
    /\ fn_ret.result.value[1].confidence = fn_args.confidence_threshold

\* C12: every item infer_objectives returns is marked inferred, has
\* validation_status 'inferred', a non-empty rationale and a confidence within
\* [0,1], and the objective_index values of the returned list are 0..n-1 in
\* list order.
C12_ItemFields ==
    (fn_ret.called /\ ~fn_ret.result.raised) =>
        LET res == fn_ret.result.value
        IN  \A n \in 1..Len(res) :
              /\ res[n].is_inferred = TRUE
              /\ res[n].validation_status = "inferred"
              /\ res[n].rationale # ""
              /\ res[n].rationale # None
              /\ res[n].confidence >= 0
              /\ res[n].confidence <= 100
              /\ res[n].objective_index = n - 1

\* C12 witness: a ten-item list survived a positive threshold
C12_Witness ==
    /\ fn_ret.called
    /\ ~fn_ret.result.raised
    /\ fn_args.confidence_threshold > 0
    /\ Len(fn_ret.result.value) = 10
    /\ fn_ret.result.value[10].objective_index = 9

-----------------------------------------------------------------------------
(* scripts/inference.py: InferenceEngine.enhance_confidence *)

Min2(a, b) == IF a <= b THEN a ELSE b

Digits == <<"0", "1", "2", "3", "4", "5", "6", "7", "8", "9">>

\* str(n) of a natural number
RECURSIVE IntToStr(_)
IntToStr(n) ==
    IF n < 10 THEN Digits[n + 1]
    ELSE IntToStr(n \div 10) \o Digits[(n % 10) + 1]

BOOST_PER_SOURCE == 10

MAX_BOOST == 30

CONF_ONE == 100

\* boost = min(len(supporting_evidence) * 0.1, 0.3)
boost_of(supporting_evidence) ==
    Min2(Len(supporting_evidence) * BOOST_PER_SOURCE, MAX_BOOST)

\* mutant of boosted_confidence: the sum is not clamped
boosted_confidence_unclamped(confidence, boost) == confidence + boost

\* min(obj['confidence'] + boost, 1.0)
boosted_confidence(confidence, boost) == Min2(confidence + boost, CONF_ONE)

\* the loop body applied to every element; the list is updated in place and
\* returned, its dicts being distinct objects
enhance_confidence(objs, supporting_evidence) ==
    [ k \in 1..Len(objs) |->
        LET obj == objs[k]
        IN  IF obj.is_inferred /\ supporting_evidence # <<>>
            THEN [obj EXCEPT
                    !.confidence = boosted_confidence(obj.confidence,
                                        boost_of(supporting_evidence)),
                    !.rationale  = obj.rationale \o " | Supported by "
                                     \o IntToStr(Len(supporting_evidence))
                                     \o " additional source(s)"]
            ELSE obj ]

(* Direct calls of enhance_confidence, repeated on the list it returned *)

MaxObjectives == 2

MaxSources == 4

MaxApplications == 2

ConfidenceInputs == {0, 40, 65, 75, 95, 100}

EvidencePool(n) == [ k \in 1..n |-> "https://source.example/" \o IntToStr(k) ]

ObjectiveInputs ==
    { [is_inferred |-> TRUE, confidence |-> c,
       rationale |-> "Synthesized from state curriculum standards aligned with test"] :
        c \in ConfidenceInputs }
    \cup
    { [is_inferred |-> FALSE, confidence |-> c, rationale |-> None] :
        c \in ConfidenceInputs }

ObjectiveListInputs ==
    UNION { [1..n -> ObjectiveInputs] : n \in 0..MaxObjectives }

EnhanceInit ==
    /\ PipelineInit
    /\ fn_args \in [objectives : ObjectiveListInputs]
    /\ fn_ret = NotCalled

\* objectives = enhance_confidence(objectives, supporting_evidence), on the
\* input list first and on the returned list afterwards
CallEnhanceConfidence ==
    \E n \in 0..MaxSources :
        LET current == IF fn_ret.called THEN fn_ret.objectives
                       ELSE fn_args.objectives
            applied == IF fn_ret.called THEN fn_ret.applications ELSE 0
        IN  /\ applied < MaxApplications
            /\ fn_ret' = [ called              |-> TRUE,
                           applications        |-> applied + 1,
                           supporting_evidence |-> EvidencePool(n),
                           before              |-> current,
                           objectives          |-> enhance_confidence(current,
                                                       EvidencePool(n)) ]
            /\ UNCHANGED <<pipeline_vars, fn_args>>

EnhanceNext == CallEnhanceConfidence

EnhanceSpec == EnhanceInit /\ [][EnhanceNext]_vars

\* C13: one application sets each inferred objective's confidence to
\* min(old + min(0.1 n, 0.3), 1.0), n the number of supporting URLs, and leaves
\* non-inferred objectives, and with n = 0 every objective, unchanged; after
\* any number of applications no confidence exceeds 1.0 or lies below the
\* one the objective started with.
C13_EnhanceConfidence ==
    fn_ret.called =>
        LET n      == Len(fn_ret.supporting_evidence)
            before == fn_ret.before
            after  == fn_ret.objectives
            first  == fn_args.objectives
            add    == IF 10 * n < 30 THEN 10 * n ELSE 30
        IN  /\ Len(after) = Len(before)
            /\ \A k \in 1..Len(after) :
                  /\ IF before[k].is_inferred /\ n > 0
                     THEN /\ after[k].confidence =
                                (IF before[k].confidence + add < 100
                                 THEN before[k].confidence + add ELSE 100)
                          /\ after[k].is_inferred
                     ELSE after[k] = before[k]
                  /\ after[k].confidence <= 100
                  /\ after[k].confidence >= before[k].confidence
                  /\ after[k].confidence >= first[k].confidence

\* C13 witness: a second application with more than three sources hit the
\* clamp on an inferred objective while a non-inferred one kept its value
C13_Witness ==
    /\ fn_ret.called
    /\ fn_ret.applications = 2
    /\ Len(fn_ret.supporting_evidence) = 4
    /\ \E k \in 1..Len(fn_ret.objectives) :
          /\ fn_ret.before[k].is_inferred
          /\ fn_ret.before[k].confidence = 95
          /\ fn_ret.objectives[k].confidence = 100
    /\ \E k \in 1..Len(fn_ret.objectives) :
          /\ ~fn_ret.before[k].is_inferred
          /\ fn_ret.objectives[k].confidence = 65

-----------------------------------------------------------------------------
(* scripts/discovery.py: DiscoveryEngine._deduplicate_tests *)

\* mutant of dedup_key: the test code is left out of the key
dedup_key_without_code(test) ==
    << Get(test, "test_system", ""), Get(test, "test_name", "") >>

\* key = (test.get('test_system', ''), test.get('test_name', ''),
\*        test.get('test_code', ''))
dedup_key(test) ==
    << Get(test, "test_system", ""),
       Get(test, "test_name", ""),
       Get(test, "test_code", "") >>

\* the for loop over tests[k..], with the set "seen" and the list "unique"
RECURSIVE dedup_loop(_, _, _, _)
dedup_loop(tests, k, seen_keys, unique) ==
    IF k > Len(tests) THEN unique
    ELSE LET key == dedup_key(tests[k])
         IN  IF key \notin seen_keys
             THEN dedup_loop(tests, k + 1, seen_keys \cup {key},
                             Append(unique, tests[k]))
             ELSE dedup_loop(tests, k + 1, seen_keys, unique)

\* mutant of deduplicate_tests: only the first duplicate met is dropped
RECURSIVE dedup_drop_one(_, _, _, _)
dedup_drop_one(tests, k, seen_keys, unique) ==
    IF k > Len(tests) THEN unique
    ELSE LET key == dedup_key(tests[k])
         IN  IF key \notin seen_keys
             THEN dedup_drop_one(tests, k + 1, seen_keys \cup {key},
                                 Append(unique, tests[k]))
             ELSE unique \o SubSeq(tests, k + 1, Len(tests))

deduplicate_tests_drop_one(tests) == dedup_drop_one(tests, 1, {}, <<>>)

deduplicate_tests(tests) == dedup_loop(tests, 1, {}, <<>>)

(* Direct calls of _deduplicate_tests, repeated on the list it returned *)

MaxCandidates == 3

MaxDedupCalls == 2

\* the dict with the given values, without the keys whose value is Absent
candidate_with(test_system, test_name, test_code, url) ==
    LET all == [test_system |-> test_system, test_name |-> test_name,
                test_code |-> test_code, official_source_url |-> url]
    IN  [ f \in {f \in DOMAIN all : all[f] # Absent} |-> all[f] ]

CandidateInputs ==
    { candidate_with("Praxis", n, c, u) :
        n \in {Absent, "Elementary Education"},
        c \in {Absent, "", "5001"},
        u \in {"https://www.ets.org/praxis/al", "https://www.alsde.edu/tests"} }
    \cup { candidate_with("NES", "Elementary Education", "5001",
                          "https://www.nesinc.com/tests") }

CandidateListInputs ==
    UNION { [1..n -> CandidateInputs] : n \in 0..MaxCandidates }

DedupInit ==
    /\ PipelineInit
    /\ fn_args \in [tests : CandidateListInputs]
    /\ fn_ret = NotCalled

\* unique = self._deduplicate_tests(tests), on the input list first and on
\* the returned list afterwards
CallDeduplicateTests ==
    LET current == IF fn_ret.called THEN fn_ret.unique ELSE fn_args.tests
        applied == IF fn_ret.called THEN fn_ret.applications ELSE 0
    IN  /\ applied < MaxDedupCalls
        /\ fn_ret' = [ called       |-> TRUE,
                       applications |-> applied + 1,
                       tests        |-> current,
                       unique       |-> deduplicate_tests(current) ]
        /\ UNCHANGED <<pipeline_vars, fn_args>>

DedupNext == CallDeduplicateTests

DedupSpec == DedupInit /\ [][DedupNext]_vars

\* the key of the claim: the three fields, an absent field read as ''
claimed_key(test) ==
    << IF "test_system" \in DOMAIN test THEN test.test_system ELSE "",
       IF "test_name" \in DOMAIN test THEN test.test_name ELSE "",
       IF "test_code" \in DOMAIN test THEN test.test_code ELSE "" >>

\* the positions of a list that hold the first candidate of their key
first_positions(tests) ==
    { p \in 1..Len(tests) :
        \A q \in 1..(p - 1) : claimed_key(tests[q]) # claimed_key(tests[p]) }

\* the elements of the list at the given positions, in list order
RECURSIVE pick_positions(_, _, _)
pick_positions(tests, k, positions) ==
    IF k > Len(tests) THEN <<>>
    ELSE IF k \in positions
         THEN <<tests[k]>> \o pick_positions(tests, k + 1, positions)
         ELSE pick_positions(tests, k + 1, positions)

\* C14: the result of _deduplicate_tests holds, for every key (test_system,
\* test_name, test_code) of the input, exactly the first candidate with that
\* key, and the kept candidates are in input order.
C14_FirstSeenWins ==
    fn_ret.called =>
        fn_ret.unique =
            pick_positions(fn_ret.tests, 1, first_positions(fn_ret.tests))

\* C14 witness: two candidates with one key and different source URLs, and a
\* third with another key in between, gave the first and the third
C14_Witness ==
    /\ fn_ret.called
    /\ fn_ret.applications = 1
    /\ Len(fn_ret.tests) = 3
    /\ claimed_key(fn_ret.tests[1]) = <<"Praxis", "Elementary Education", "5001">>
    /\ claimed_key(fn_ret.tests[3]) = claimed_key(fn_ret.tests[1])
    /\ fn_ret.tests[3].official_source_url # fn_ret.tests[1].official_source_url
    /\ claimed_key(fn_ret.tests[2]) # claimed_key(fn_ret.tests[1])
    /\ fn_ret.unique = <<fn_ret.tests[1], fn_ret.tests[2]>>

\* C15: deduplicating a deduplicated list gives that list again, same
\* elements in the same order.
C15_DedupIdempotent ==
    (fn_ret.called /\ fn_ret.applications = 2) =>
        fn_ret.unique = fn_ret.tests

\* C15 witness: the second call ran on a list from which the first call had
\* dropped candidates
C15_Witness ==
    /\ fn_ret.called
    /\ fn_ret.applications = 2
    /\ Len(fn_ret.unique) >= 2
    /\ Len(fn_ret.unique) < Len(fn_args.tests)
    /\ fn_ret.unique = fn_ret.tests

-----------------------------------------------------------------------------
(* Properties of the store after run_full_pipeline's upserts and inserts *)

\* the uniqueness key of a Test row
test_key(r) == <<r.state_id, r.test_system, r.test_name, r.test_code>>

\* C16: the store holds at most one Test per uniqueness key (unit, system,
\* name, code), also when the code is absent (NULL).
C16_OneTestPerKey ==
    \A a, b \in tests_tbl : test_key(a) = test_key(b) => a.id = b.id

\* C17: the id upsert_test returned for the test being processed is the id of
\* the Test row with that test's uniqueness key, and every persisted objective
\* carries the id of a Test of the unit whose run stored it.
C17_UpsertReturnsKeyRowId ==
    /\ pc = "ps_objective" =>
          \E r \in tests_tbl :
              /\ r.id = test_id
              /\ test_key(r) = <<state_id, sample_tests[t].test_system,
                                 sample_tests[t].test_name,
                                 Get(sample_tests[t], "test_code", None)>>
    /\ \A o \in objectives_tbl :
          \A p \in inserted_in :
              p[1] = o.id =>
                  \E r \in tests_tbl, a \in audits_tbl :
                      /\ r.id = o.test_id
                      /\ a.id = p[2]
                      /\ r.state_id = a.state_id

\* C18: no two persisted objectives of the same Test share an objective_index.
C18_ObjectiveIndexUnique ==
    \A a, b \in objectives_tbl :
        (a.test_id = b.test_id /\ a.objective_index = b.objective_index)
            => a.id = b.id

-----------------------------------------------------------------------------
(* Direct calls of ValidationEngine.validate_objective *)

\* an optional value: <<>> for a key the dict lacks, <<v>> for the value v
Missing == <<>>

Present(values) == { <<v>> : v \in values }

\* the dict with the given optional values
objective_with(text, is_inferred, confidence, rationale) ==
    LET all == [objective_text |-> text, is_inferred |-> is_inferred,
                confidence |-> confidence, rationale |-> rationale]
    IN  [ f \in {f \in DOMAIN all : all[f] # Missing} |-> all[f][1] ]

ObjectiveTextInputs ==
    { "", "Apply knowledge", "Apply knowledge of student learning",
      "Demonstrate knowledge of child development stages",
      "Knowledge of child development stages and theories",
      "Click here for the full study guide online",
      "Demonstrate content knowledge. Copyright 2024 All Rights Reserved",
      "Because the causes remain unclear to everyone",
      "DEMONSTRATE KNOWLEDGE OF CHILD DEVELOPMENT STAGES",
      "Apply\tknowledge of\nchild   development stages" }

ValidatedObjectiveInputs ==
    { objective_with(x, f, c, r) :
        x \in {Missing} \cup Present(ObjectiveTextInputs),
        f \in {Missing} \cup Present({FALSE, TRUE}),
        c \in {Missing} \cup Present({-1, 0, 75, 100, 101}),
        r \in {Missing} \cup Present({None, "",
               "Synthesized from state curriculum standards aligned with test"}) }

ValidateInit ==
    /\ PipelineInit
    /\ fn_args \in [objective_data : ValidatedObjectiveInputs]
    /\ fn_ret = NotCalled

\* is_valid, issues = validate_objective(objective_data)
CallValidateObjective ==
    /\ ~fn_ret.called
    /\ fn_ret' = [ called   |-> TRUE,
                   is_valid |-> validate_objective(fn_args.objective_data).is_valid,
                   issues   |-> validate_objective(fn_args.objective_data).issues ]
    /\ UNCHANGED <<pipeline_vars, fn_args>>

ValidateNext == CallValidateObjective

ValidateSpec == ValidateInit /\ [][ValidateNext]_vars

\* the rules of the claim, read off the objective
claimed_violations(o) ==
    LET text     == IF "objective_text" \in DOMAIN o THEN o.objective_text ELSE ""
        lowered  == Lower(Chars(text))
        inferred == "is_inferred" \in DOMAIN o /\ o.is_inferred = TRUE
    IN  { r \in {"words", "verb", "boilerplate", "confidence", "rationale"} :
            \/ r = "words" /\ WordCount(Chars(text)) < 6
            \/ r = "verb" /\
                 ~\E k \in 1..Len(action_verbs) :
                     Contains(lowered, Chars(action_verbs[k]))
            \/ r = "boilerplate" /\
                 \E k \in 1..Len(boilerplate_phrases) :
                     Contains(lowered, Chars(boilerplate_phrases[k]))
            \/ r = "confidence" /\ inferred /\ "confidence" \in DOMAIN o
                 /\ (o.confidence < 0 \/ o.confidence > 100)
            \/ r = "rationale" /\ inferred
                 /\ ("rationale" \notin DOMAIN o \/ o.rationale \in {None, ""}) }

\* C19: validate_objective accepts exactly when its issue list is empty, the
\* list is non-empty exactly when a rule is violated (fewer than 6 words, no
\* action verb in the text, a boilerplate phrase in the text, or, for an
\* inferred objective only, confidence outside [0,1] or an empty rationale),
\* and a text of fewer than 6 words gets an issue citing the minimum.
C19_ValidateObjective ==
    fn_ret.called =>
        LET broken == claimed_violations(fn_args.objective_data)
        IN  /\ fn_ret.is_valid <=> (fn_ret.issues = <<>>)
            /\ (fn_ret.issues # <<>>) <=> (broken # {})
            /\ Len(fn_ret.issues) = Cardinality(broken)
            /\ "words" \in broken =>
                  LET text == IF "objective_text" \in DOMAIN fn_args.objective_data
                              THEN fn_args.objective_data.objective_text ELSE ""
                  IN  \E k \in 1..Len(fn_ret.issues) :
                        fn_ret.issues[k] =
                            "Objective too short (" \o ToString(WordCount(Chars(text)))
                                \o " words, minimum 6)"

\* C19 witness: the two-word text "Apply knowledge", not inferred, was
\* rejected with the word-count issue alone
C19_Witness ==
    /\ fn_ret.called
    /\ Get(fn_args.objective_data, "objective_text", "") = "Apply knowledge"
    /\ Get(fn_args.objective_data, "is_inferred", TRUE) = FALSE
    /\ ~fn_ret.is_valid
    /\ fn_ret.issues = <<"Objective too short (2 words, minimum 6)">>

-----------------------------------------------------------------------------
(* teacher_cert_pdf_validator/src/validator.py: PDFValidator.is_valid_pdf *)

\* s.endswith(suffix) and s.startswith(prefix) on character sequences
EndsWith(cs, suffix) ==
    /\ Len(cs) >= Len(suffix)
    /\ SubSeq(cs, Len(cs) - Len(suffix) + 1, Len(cs)) = suffix

StartsWith(cs, prefix) ==
    /\ Len(cs) >= Len(prefix)
    /\ SubSeq(cs, 1, Len(prefix)) = prefix

\* urlparse(url): the scheme is what precedes the first "://", the netloc what
\* follows it up to the next "/", "?" or "#"; both empty without a "://"
urlparse(url) ==
    LET cs    == Chars(url)
        marks == { k \in 1..(Len(cs) - 2) : SubSeq(cs, k, k + 2) = Chars("://") }
    IN  IF marks = {} THEN [scheme |-> <<>>, netloc |-> <<>>]
        ELSE LET k    == CHOOSE m \in marks : \A n \in marks : m <= n
                 rest == SubSeq(cs, k + 3, Len(cs))
                 ends == { e \in 1..Len(rest) : rest[e] \in {"/", "?", "#"} }
                 stop == IF ends = {} THEN Len(rest) + 1
                         ELSE CHOOSE e \in ends : \A n \in ends : e <= n
             IN  [scheme |-> SubSeq(cs, 1, k - 1),
                  netloc |-> SubSeq(rest, 1, stop - 1)]

HTTP_OK == 200

\* what a request gives: a response (status, final URL after redirects, the
\* Content-Type header if any, the first chunk of the body or None), or one of
\* the requests exceptions
http_response(status_code, url, content_type, chunk) ==
    [ raised |-> FALSE, status_code |-> status_code, url |-> url,
      content_type |-> content_type, chunk |-> chunk ]

http_raises(e) == [ raised |-> TRUE, exc |-> e ]

\* the except clauses
request_failure_reason(e) ==
    CASE e = "Timeout"          -> "Request timeout"
      [] e = "ConnectionError"  -> "Connection failed"
      [] e = "TooManyRedirects" -> "Too many redirects"

pdf_verdict(valid, reason) == [valid |-> valid, reason |-> reason]

\* '.pdf' in response.url.lower()
url_names_pdf(response_url) ==
    Contains(Lower(Chars(response_url)), Chars(".pdf"))

\* from "Check final URL after redirects" to the end
pdf_by_final_url(response) ==
    IF url_names_pdf(response.url)
    THEN pdf_verdict(TRUE, "Valid PDF (URL extension)")
    ELSE pdf_verdict(FALSE, "Not a PDF file")

\* from "Check content type" on, for the 200 response of HEAD or GET; a
\* requests response always has the attribute raw, so the second GET is made
\* whenever the URL test passes
pdf_by_response(url, response, reget) ==
    LET content_type == IF response.content_type = <<>> THEN ""
                        ELSE response.content_type[1]
    IN  IF Contains(Lower(Chars(content_type)), Chars("application/pdf"))
        THEN pdf_verdict(TRUE, "Valid PDF (Content-Type)")
        ELSE IF \/ EndsWith(Lower(Chars(url)), Chars(".pdf"))
                \/ EndsWith(Lower(Chars(response.url)), Chars(".pdf"))
        THEN IF reget.raised
             THEN pdf_verdict(FALSE, request_failure_reason(reget.exc))
             ELSE IF reget.chunk # None /\ StartsWith(Chars(reget.chunk), Chars("%PDF"))
             THEN pdf_verdict(TRUE, "Valid PDF (signature check)")
             ELSE IF reget.chunk # None
             THEN pdf_verdict(FALSE, "File exists but not a PDF")
             ELSE pdf_by_final_url(reget)
        ELSE pdf_by_final_url(response)

\* is_valid_pdf(url) when the HEAD request, the GET made if HEAD is not 200,
\* and the GET made for the signature give net.head, net.get and net.reget
is_valid_pdf(url, net) ==
    IF urlparse(url).scheme = <<>> \/ urlparse(url).netloc = <<>>
    THEN pdf_verdict(FALSE, "Invalid URL format")
    ELSE IF net.head.raised
    THEN pdf_verdict(FALSE, request_failure_reason(net.head.exc))
    ELSE IF net.head.status_code = HTTP_OK
    THEN pdf_by_response(url, net.head, net.reget)
    ELSE IF net.get.raised
    THEN pdf_verdict(FALSE, request_failure_reason(net.get.exc))
    ELSE IF net.get.status_code # HTTP_OK
    THEN pdf_verdict(FALSE, "HTTP " \o IntToStr(net.get.status_code))
    ELSE pdf_by_response(url, net.get, net.reget)

(* Direct calls of is_valid_pdf *)

PdfUrlInputs ==
    { "https://doe.example.gov/guide.pdf",
      "https://doe.example.gov/guide.pdf?download=1",
      "https://doe.example.gov/guide",
      "HTTPS://DOE.EXAMPLE.GOV/GUIDE.PDF",
      "doe.example.gov/guide.pdf",
      "https://doe.example.gov/docs.pdf/index.html" }

\* where a request for url may end after redirects
FinalUrls(url) ==
    {url, "https://cdn.example.org/files/guide.pdf", "https://doe.example.gov/login"}

RequestExceptions == { http_raises(e) : e \in {"Timeout", "ConnectionError", "TooManyRedirects"} }

\* outcomes of the HEAD request and of the GET that replaces it
HeaderOutcomes(url) ==
    RequestExceptions \cup
    { http_response(s, u, c, None) :
        s \in {HTTP_OK, 404}, u \in FinalUrls(url),
        c \in {<<>>, <<"text/html">>, <<"Application/PDF">>} }

\* outcomes of the GET made to read the first bytes
BodyOutcomes(url) ==
    RequestExceptions \cup
    { http_response(HTTP_OK, u, <<>>, b) :
        u \in FinalUrls(url), b \in {None, "%PDF-1.7", "<!DOCTYP", "%PD"} }

PdfInit ==
    /\ PipelineInit
    /\ fn_args \in [url : PdfUrlInputs]
    /\ fn_ret = NotCalled

\* is_valid, reason = is_valid_pdf(url)
CallIsValidPdf ==
    /\ ~fn_ret.called
    /\ \E head \in HeaderOutcomes(fn_args.url), get \in HeaderOutcomes(fn_args.url),
          reget \in BodyOutcomes(fn_args.url) :
          LET net == [head |-> head, get |-> get, reget |-> reget]
          IN  fn_ret' = [ called |-> TRUE, net |-> net,
                          verdict |-> is_valid_pdf(fn_args.url, net) ]
    /\ UNCHANGED <<pipeline_vars, fn_args>>

PdfNext == CallIsValidPdf

PdfSpec == PdfInit /\ [][PdfNext]_vars

\* the response is_valid_pdf inspects: that of HEAD if it is 200, else that of GET
inspected_response ==
    IF fn_ret.net.head.status_code = 200 THEN fn_ret.net.head ELSE fn_ret.net.get

\* the case of the claim: a well-formed URL whose final response has status 200
\* and a Content-Type without application/pdf
pdf_undeclared ==
    /\ fn_ret.called
    /\ urlparse(fn_args.url).scheme # <<>>
    /\ urlparse(fn_args.url).netloc # <<>>
    /\ ~fn_ret.net.head.raised
    /\ fn_ret.net.head.status_code # 200 => ~fn_ret.net.get.raised
    /\ inspected_response.status_code = 200
    /\ \/ inspected_response.content_type = <<>>
       \/ ~Contains(Lower(Chars(inspected_response.content_type[1])),
                    Chars("application/pdf"))

\* C20: for a URL whose final response has status 200 and whose Content-Type
\* does not contain application/pdf, is_valid_pdf answers valid only if the URL
\* or the final redirected URL ends in .pdf and the first bytes read begin with
\* %PDF; in every other such case it rejects.
C20_PdfSignatureRequired ==
    (pdf_undeclared /\ fn_ret.verdict.valid) =>
        /\ \/ EndsWith(Lower(Chars(fn_args.url)), Chars(".pdf"))
           \/ EndsWith(Lower(Chars(inspected_response.url)), Chars(".pdf"))
        /\ ~fn_ret.net.reget.raised
        /\ fn_ret.net.reget.chunk # None
        /\ StartsWith(Chars(fn_ret.net.reget.chunk), Chars("%PDF"))

-----------------------------------------------------------------------------
(* Properties of the totals and of the validation gate of run_full_pipeline *)

\* the sum of a count over a set of audit rows
RECURSIVE audit_sum(_, _)
audit_sum(rows, field) ==
    IF rows = {} THEN 0
    ELSE LET r == CHOOSE x \in rows : TRUE
         IN  r[field] + audit_sum(rows \ {r}, field)

\* C21: the totals run_full_pipeline returns are a reduction over the audits of
\* the units it processed: states_processed is the number of units of the
\* list, total_tests, total_verified and total_inferred are the sums of the
\* audits' tests_found, objectives_found and objectives_inferred, and
\* total_objectives = total_verified + total_inferred.
C21_TotalsAreReduction ==
    pc = "returned" =>
        /\ result.value.states_processed = Len(units)
        /\ Cardinality(audits_tbl) = Len(units)
        /\ result.value.total_tests = audit_sum(audits_tbl, "tests_found")
        /\ result.value.total_verified = audit_sum(audits_tbl, "objectives_found")
        /\ result.value.total_inferred = audit_sum(audits_tbl, "objectives_inferred")
        /\ result.value.total_objectives =
              result.value.total_verified + result.value.total_inferred

\* C21 witness: a returned run of two units, one closed 'error' with objectives
\* stored before the failure and one closed 'complete'
C21_Witness ==
    /\ pc = "returned"
    /\ Len(units) = 2
    /\ \E a, b \in audits_tbl :
          /\ a.status = "error"
          /\ a.objectives_inferred > 0
          /\ b.status = "complete"
    /\ result.value.total_inferred > 21

\* C22: every objective process_state persists was accepted by
\* validate_objective in that run, and an objective validate_objective rejects
\* is neither persisted nor counted in objectives_found or objectives_inferred.
C22_ValidationGate ==
    [][ pc = "ps_objective" =>
          LET accepted == validate_objective(objectives[j]).is_valid
              added    == objectives_tbl' \ objectives_tbl
          IN  /\ ~accepted => (added = {} /\ counts' = counts)
              /\ \A o \in added :
                    /\ accepted
                    /\ o.objective_text = objectives[j].objective_text
                    /\ o.objective_index = objectives[j].objective_index
              /\ \A o \in objectives_tbl' : validate_objective(o).is_valid
      ]_vars

\* C22 witness: the loop has passed a rejected objective of the current test,
\* which is not in the store, while accepted ones of the same test are
C22_Witness ==
    /\ pc = "ps_objective"
    /\ audit_id = 1
    /\ j > 1
    /\ \E k \in 1..(j - 1) :
          /\ ~validate_objective(objectives[k]).is_valid
          /\ ~\E o \in objectives_tbl :
                /\ o.test_id = test_id
                /\ o.objective_index = objectives[k].objective_index
    /\ \E o \in objectives_tbl : o.test_id = test_id
    /\ counts.objectives_inferred =
          Cardinality({o \in objectives_tbl : TRUE})

-----------------------------------------------------------------------------
(* scripts/discovery.py: DiscoveryEngine.discover_state_tests *)

\* the string of a character sequence
RECURSIVE StrOf(_)
StrOf(cs) ==
    IF cs = <<>> THEN ""
    ELSE IF Len(cs) = 1 THEN cs[1]
    ELSE StrOf(SubSeq(cs, 1, Len(cs) \div 2))
         \o StrOf(SubSeq(cs, (Len(cs) \div 2) + 1, Len(cs)))

UpperChar(c) ==
    IF \E k \in 1..26 : LowerCase[k] = c
    THEN UpperCase[CHOOSE k \in 1..26 : LowerCase[k] = c]
    ELSE c

\* the dict abbrevs of _get_state_abbrev
abbrevs ==
    [ n \in { "Alabama", "Alaska", "Arizona", "Arkansas", "California",
              "Colorado", "Connecticut", "Delaware", "Florida", "Georgia",
              "Hawaii", "Idaho", "Illinois", "Indiana", "Iowa", "Kansas",
              "Kentucky", "Louisiana", "Maine", "Maryland", "Massachusetts",
              "Michigan", "Minnesota", "Mississippi", "Missouri", "Montana",
              "Nebraska", "Nevada", "New Hampshire", "New Jersey", "New Mexico",
              "New York", "North Carolina", "North Dakota", "Ohio", "Oklahoma",
              "Oregon", "Pennsylvania", "Rhode Island", "South Carolina",
              "South Dakota", "Tennessee", "Texas", "Utah", "Vermont",
              "Virginia", "Washington", "West Virginia", "Wisconsin", "Wyoming" } |->
        CASE n = "Alabama" -> "AL" [] n = "Alaska" -> "AK" [] n = "Arizona" -> "AZ"
          [] n = "Arkansas" -> "AR" [] n = "California" -> "CA" [] n = "Colorado" -> "CO"
          [] n = "Connecticut" -> "CT" [] n = "Delaware" -> "DE" [] n = "Florida" -> "FL"
          [] n = "Georgia" -> "GA" [] n = "Hawaii" -> "HI" [] n = "Idaho" -> "ID"
          [] n = "Illinois" -> "IL" [] n = "Indiana" -> "IN" [] n = "Iowa" -> "IA"
          [] n = "Kansas" -> "KS" [] n = "Kentucky" -> "KY" [] n = "Louisiana" -> "LA"
          [] n = "Maine" -> "ME" [] n = "Maryland" -> "MD" [] n = "Massachusetts" -> "MA"
          [] n = "Michigan" -> "MI" [] n = "Minnesota" -> "MN" [] n = "Mississippi" -> "MS"
          [] n = "Missouri" -> "MO" [] n = "Montana" -> "MT" [] n = "Nebraska" -> "NE"
          [] n = "Nevada" -> "NV" [] n = "New Hampshire" -> "NH" [] n = "New Jersey" -> "NJ"
          [] n = "New Mexico" -> "NM" [] n = "New York" -> "NY"
          [] n = "North Carolina" -> "NC" [] n = "North Dakota" -> "ND" [] n = "Ohio" -> "OH"
          [] n = "Oklahoma" -> "OK" [] n = "Oregon" -> "OR" [] n = "Pennsylvania" -> "PA"
          [] n = "Rhode Island" -> "RI" [] n = "South Carolina" -> "SC"
          [] n = "South Dakota" -> "SD" [] n = "Tennessee" -> "TN" [] n = "Texas" -> "TX"
          [] n = "Utah" -> "UT" [] n = "Vermont" -> "VT" [] n = "Virginia" -> "VA"
          [] n = "Washington" -> "WA" [] n = "West Virginia" -> "WV"
          [] n = "Wisconsin" -> "WI" [] n = "Wyoming" -> "WY" ]

\* abbrevs.get(state_name, state_name[:2].upper())
get_state_abbrev(state_name) ==
    IF state_name \in DOMAIN abbrevs THEN abbrevs[state_name]
    ELSE StrOf([k \in 1..Len(Prefix(Chars(state_name), 2)) |->
                    UpperChar(Chars(state_name)[k])])

generate_search_queries(state_name) ==
    LET state_abbrev == get_state_abbrev(state_name)
    IN  << state_name \o " teacher certification tests requirements site:.gov",
           state_name \o " department of education teacher licensing exams",
           state_abbrev \o " DOE teacher certification test list",
           state_name \o " teacher certification test objectives site:.gov",
           state_name \o " teacher test blueprint framework",
           state_name \o " teacher certification test competencies",
           state_name \o " Praxis tests required teaching license",
           state_name \o " NES teacher tests objectives",
           state_name \o " teacher certification exam study guide objectives site:edu",
           state_name \o " state teacher exam framework",
           state_abbrev \o " educator certification assessment objectives" >>

authoritative_domains ==
    <<".gov", ".edu", "ets.org", "pearson.com", "nesinc.com",
      "edtpa.com", "state.", "doe.", "education.">>

\* any(auth in urlparse(url).netloc.lower() for auth in authoritative_domains)
is_authoritative_source(url) ==
    ContainsAny(Lower(urlparse(url).netloc), authoritative_domains)

IsDigit(c) == c \in {"0", "1", "2", "3", "4", "5", "6", "7", "8", "9"}

\* the length of the longest run of characters of one kind that starts at k
RECURSIVE RunLength(_, _, _)
RunLength(cs, k, digits) ==
    IF k > Len(cs) THEN 0
    ELSE IF (digits /\ IsDigit(cs[k])) \/ (~digits /\ IsSpace(cs[k]))
         THEN 1 + RunLength(cs, k + 1, digits)
         ELSE 0

\* re.finditer(word + r'\s+(\d+)', content, re.IGNORECASE): group 1 of every
\* match, in order of position
coded_matches(content, word) ==
    LET cs     == Chars(content)
        w      == Chars(word)
        starts == { k \in 1..Len(cs) :
                      /\ k + Len(w) - 1 <= Len(cs)
                      /\ Lower(SubSeq(cs, k, k + Len(w) - 1)) = w
                      /\ RunLength(cs, k + Len(w), FALSE) >= 1
                      /\ RunLength(cs, k + Len(w) + RunLength(cs, k + Len(w), FALSE),
                                   TRUE) >= 1 }
        code(k) == LET d == k + Len(w) + RunLength(cs, k + Len(w), FALSE)
                   IN  StrOf(SubSeq(cs, d, d + RunLength(cs, d, TRUE) - 1))
        RECURSIVE from(_)
        from(k) == IF k > Len(cs) THEN <<>>
                   ELSE IF k \in starts THEN <<code(k)>> \o from(k + 1)
                   ELSE from(k + 1)
    IN  from(1)

\* re.finditer(word, content, re.IGNORECASE) for a pattern without a group:
\* one None per match
plain_matches(content, word) ==
    LET cs == Chars(content)
        w  == Chars(word)
        RECURSIVE from(_)
        from(k) == IF k + Len(w) - 1 > Len(cs) THEN <<>>
                   ELSE IF Lower(SubSeq(cs, k, k + Len(w) - 1)) = w
                   THEN <<None>> \o from(k + Len(w))
                   ELSE from(k + 1)
    IN  from(1)

SAMPLE_LENGTH == 500

\* what _extract_tests_from_url reads off a page text, for every text of the
\* character table: the matches of the three patterns and content[:500]
page_matches ==
    [ s \in DOMAIN CharTable |->
        [ praxis |-> coded_matches(s, "praxis"),
          nes    |-> coded_matches(s, "nes"),
          edtpa  |-> plain_matches(s, "edtpa"),
          sample |-> StrOf(Prefix(Chars(s), SAMPLE_LENGTH)) ] ]

\* the dicts appended for the matches of one pattern
tests_of_matches(codes, system, provider, url, content) ==
    [ k \in 1..Len(codes) |->
        [ test_system         |-> system,
          provider            |-> provider,
          test_code           |-> codes[k],
          official_source_url |-> url,
          source_content      |-> page_matches[content].sample ] ]

\* what web_fetch gives: a text, None, or an exception
fetch_returns(content) == [raised |-> FALSE, content |-> content]

fetch_raises == [raised |-> TRUE]

\* _extract_tests_from_url: an exception of web_fetch is caught and gives []
extract_tests_from_url(url, fetched) ==
    IF fetched.raised \/ ~Truthy(fetched.content) THEN <<>>
    ELSE tests_of_matches(page_matches[fetched.content].praxis,
                          "Praxis", "ETS", url, fetched.content)
         \o tests_of_matches(page_matches[fetched.content].nes,
                             "NES", "Pearson", url, fetched.content)
         \o tests_of_matches(page_matches[fetched.content].edtpa,
                             "edTPA", "Pearson", url, fetched.content)

TOP_RESULTS == 5

\* results[:5]
top_results(results) == Prefix(results, TOP_RESULTS)

\* _is_authoritative_source for every string of the character table
authoritative ==
    [ s \in DOMAIN CharTable |-> is_authoritative_source(s) ]

\* if url and self._is_authoritative_source(url)
may_fetch(url) == Truthy(url) /\ authoritative[url]

\* a search result that is no dict: result.get raises AttributeError
NotADict == [not_a_dict |-> TRUE]

\* the loop "for result in results[:5]" from the k-th result on; fetch gives
\* for every URL what web_fetch answers. The value tells whether an exception
\* left the loop, the tests added to discovered_tests and the events logged.
RECURSIVE process_results(_, _, _, _, _)

\* tests = self._extract_tests_from_url(url, ...); discovered_tests.extend(tests)
extend_with_tests(results, k, fetch, tests, events, url, found) ==
    process_results(results, k + 1, fetch, tests \o found,
                    Append(events, [event |-> "fetch", url |-> url,
                                    tests |-> found]))

\* the loop body for a result that is a dict, url being what it names
process_result(results, k, fetch, tests, events, url) ==
    IF may_fetch(url)
    THEN extend_with_tests(results, k, fetch, tests, events, url,
                           extract_tests_from_url(url, fetch[url]))
    ELSE process_results(results, k + 1, fetch, tests, events)

process_results(results, k, fetch, tests, events) ==
    IF k > Len(results)
    THEN [raised |-> FALSE, tests |-> tests, events |-> events]
    ELSE IF "not_a_dict" \in DOMAIN results[k]
    THEN [raised |-> TRUE, tests |-> tests, events |-> events]
    ELSE process_result(results, k, fetch, tests, events,
                        Get(results[k], "url", Get(results[k], "link", "")))

\* what web_search gives: a list of results, nothing (None or []), or an exception
search_returns(results) == [raised |-> FALSE, results |-> results]

search_raises == [raised |-> TRUE]

\* the events of one call, in the order they happen
search_event(query, outcome) ==
    [event |-> "search", query |-> query, outcome |-> outcome]

sleep_event == [event |-> "sleep"]

\* mutant of query_after_failure: a failed query ends the loop
query_after_failure_break(queries, q) == Len(queries) + 1

\* except Exception: logger.error(...); continue
query_after_failure(queries, q) == q + 1

\* the end of one turn of the loop, done being what the processing of the
\* top results gave: time.sleep(1), which an exception skips
after_processing(d, done) ==
    IF done.raised
    THEN [d EXCEPT !.discovered_tests = done.tests,
                   !.log = done.events,
                   !.q = query_after_failure(d.queries, d.q)]
    ELSE [d EXCEPT !.discovered_tests = done.tests,
                   !.log = Append(done.events, sleep_event),
                   !.q = d.q + 1]

\* one turn of the loop after self.web_search(query), searched being the log
\* with the search
after_search(d, outcome, fetch, searched) ==
    IF outcome.raised
    THEN [d EXCEPT !.log = searched,
                   !.q = query_after_failure(d.queries, d.q)]
    ELSE IF outcome.results = <<>>
    THEN [d EXCEPT !.log = Append(searched, sleep_event),
                   !.q = d.q + 1]
    ELSE after_processing(d, process_results(top_results(outcome.results), 1,
                                             fetch, d.discovered_tests, searched))

\* one turn of "for i, query in enumerate(queries, 1)": the search, the
\* processing of its top results, and time.sleep(1)
run_query(d, outcome, fetch) ==
    after_search(d, outcome, fetch,
                 Append(d.log, search_event(d.queries[d.q], outcome)))

(* Calls of discover_state_tests against a search and a fetch capability *)

\* at most this many queries of one call get an answer other than "nothing"
MaxEventfulQueries == 2

StateNameInputs == {"Alabama", "Guam"}

UrlEdu == "https://www.alsde.edu/tests"

UrlEts == "https://www.ets.org/praxis/al"

UrlCom == "https://www.teachertestprep.com/alabama"

UrlBare == "www.alabama.gov/licensure"

ResultLists ==
    { << [url |-> UrlCom], [url |-> UrlEdu] >>,
      << [url |-> UrlCom], [url |-> UrlEdu], [url |-> UrlEts], [url |-> UrlEts],
         [url |-> UrlEts], [url |-> UrlEts], [url |-> UrlEts] >>,
      << [url |-> UrlEdu], NotADict, [url |-> UrlEts] >>,
      << [link |-> UrlEts], [url |-> "", link |-> UrlEdu], [url |-> UrlBare] >>,
      << [url |-> UrlEts], [url |-> UrlEts], [url |-> UrlEts], [url |-> UrlEts],
         [url |-> UrlEts], [url |-> UrlEts] >> }

SearchOutcomes(eventful) ==
    {search_returns(<<>>)} \cup
    (IF eventful < MaxEventfulQueries
     THEN {search_raises} \cup { search_returns(r) : r \in ResultLists }
     ELSE {})

\* what web_fetch answers for each URL during one query
FetchPlans ==
    { [ u \in {UrlEdu, UrlEts, UrlCom, UrlBare} |->
          IF u = UrlEdu THEN edu
          ELSE fetch_returns("Praxis 5001 Elementary Education") ] :
        edu \in { fetch_returns("Alabama requires Praxis 5001 and praxis  5161; edTPA is optional"),
                  fetch_raises } }

DiscoverInit ==
    /\ PipelineInit
    /\ fn_args \in [state_name : StateNameInputs]
    /\ fn_ret = NotCalled

\* discover_state_tests(state_name, logger) up to the loop
CallDiscoverStateTests ==
    /\ ~fn_ret.called
    /\ fn_ret' = [ called           |-> TRUE,
                   pc               |-> "queries",
                   queries          |-> generate_search_queries(fn_args.state_name),
                   q                |-> 1,
                   discovered_tests |-> <<>>,
                   log              |-> <<>>,
                   eventful         |-> 0,
                   unique_tests     |-> <<>> ]
    /\ UNCHANGED <<pipeline_vars, fn_args>>

\* one query of the loop
RunQuery ==
    /\ fn_ret.called
    /\ fn_ret.pc = "queries"
    /\ fn_ret.q <= Len(fn_ret.queries)
    /\ \E outcome \in SearchOutcomes(fn_ret.eventful), fetch \in FetchPlans :
          fn_ret' = [ run_query(fn_ret, outcome, fetch) EXCEPT
                        !.eventful = IF outcome = search_returns(<<>>)
                                     THEN @ ELSE @ + 1 ]
    /\ UNCHANGED <<pipeline_vars, fn_args>>

\* after the loop: unique_tests = self._deduplicate_tests(discovered_tests)
ReturnUniqueTests ==
    /\ fn_ret.called
    /\ fn_ret.pc = "queries"
    /\ fn_ret.q > Len(fn_ret.queries)
    /\ fn_ret' = [ fn_ret EXCEPT
                     !.pc = "returned",
                     !.unique_tests = deduplicate_tests(fn_ret.discovered_tests) ]
    /\ UNCHANGED <<pipeline_vars, fn_args>>

DiscoverNext == CallDiscoverStateTests \/ RunQuery \/ ReturnUniqueTests

DiscoverSpec == DiscoverInit /\ [][DiscoverNext]_vars

(* Properties of discover_state_tests, read off the events of a call *)

\* the positions of the searches in the event log
search_positions(log) == { p \in 1..Len(log) : log[p].event = "search" }

\* the last position of the events that belong to the search at position p
last_of_query(log, p) ==
    LET later == { x \in search_positions(log) : x > p }
    IN  IF later = {} THEN Len(log)
        ELSE (CHOOSE x \in later : \A y \in later : x <= y) - 1

IsFetchEvent(e) == e.event = "fetch"

\* the URLs fetched for the search at position p, in fetch order
RECURSIVE urls_of(_)
urls_of(events) ==
    IF events = <<>> THEN <<>>
    ELSE <<Head(events).url>> \o urls_of(Tail(events))

fetched_for(log, p) ==
    urls_of(SelectSeq(SubSeq(log, p + 1, last_of_query(log, p)), IsFetchEvent))

\* the URL a result names, '' if none
result_url(r) ==
    IF "url" \in DOMAIN r THEN r.url
    ELSE IF "link" \in DOMAIN r THEN r.link ELSE ""

\* the authoritative URLs of a list of results, in result order
RECURSIVE authoritative_urls(_)
authoritative_urls(results) ==
    IF results = <<>> THEN <<>>
    ELSE LET u == result_url(Head(results))
         IN  (IF u # "" /\ authoritative[u] THEN <<u>> ELSE <<>>)
             \o authoritative_urls(Tail(results))

\* a search that returned a non-empty list of dicts
answered(e) ==
    /\ e.event = "search"
    /\ ~e.outcome.raised
    /\ e.outcome.results # <<>>
    /\ \A k \in 1..Len(e.outcome.results) :
          "not_a_dict" \notin DOMAIN e.outcome.results[k]

\* C23 as claimed: for each query the URLs fetched are the first five
\* authoritative URLs of the search result list, in result order, and no
\* non-authoritative URL is fetched.
C23_FirstFiveAuthoritative ==
    fn_ret.called =>
        /\ \A p \in search_positions(fn_ret.log) :
              answered(fn_ret.log[p]) =>
                  fetched_for(fn_ret.log, p) =
                      SubSeq(authoritative_urls(fn_ret.log[p].outcome.results), 1,
                             IF Len(authoritative_urls(fn_ret.log[p].outcome.results)) < 5
                             THEN Len(authoritative_urls(fn_ret.log[p].outcome.results))
                             ELSE 5)
        /\ \A p \in 1..Len(fn_ret.log) :
              fn_ret.log[p].event = "fetch" => authoritative[fn_ret.log[p].url]

\* What the code does instead: for each query the URLs fetched are the
\* authoritative URLs among the first five results of the search result list,
\* in result order, and no non-authoritative URL is fetched.
FetchesAuthoritativeAmongTopFive ==
    fn_ret.called =>
        /\ \A p \in search_positions(fn_ret.log) :
              answered(fn_ret.log[p]) =>
                  fetched_for(fn_ret.log, p) =
                      authoritative_urls(
                          SubSeq(fn_ret.log[p].outcome.results, 1,
                                 IF Len(fn_ret.log[p].outcome.results) < 5
                                 THEN Len(fn_ret.log[p].outcome.results) ELSE 5))
        /\ \A p \in 1..Len(fn_ret.log) :
              fn_ret.log[p].event = "fetch" => authoritative[fn_ret.log[p].url]

\* a search gave seven results, the first not authoritative and the other six
\* authoritative, and four URLs were fetched for it
FourOfSixAuthoritativeFetched ==
    /\ fn_ret.called
    /\ \E p \in search_positions(fn_ret.log) :
          /\ answered(fn_ret.log[p])
          /\ Len(fn_ret.log[p].outcome.results) = 7
          /\ Len(authoritative_urls(fn_ret.log[p].outcome.results)) = 6
          /\ Len(fetched_for(fn_ret.log, p)) = 4

\* the queries searched, in search order
RECURSIVE queries_of(_)
queries_of(events) ==
    IF events = <<>> THEN <<>>
    ELSE (IF Head(events).event = "search" THEN <<Head(events).query>> ELSE <<>>)
         \o queries_of(Tail(events))

\* the candidates extracted by the fetches, in fetch order
RECURSIVE extracted_by(_)
extracted_by(events) ==
    IF events = <<>> THEN <<>>
    ELSE (IF Head(events).event = "fetch" THEN Head(events).tests ELSE <<>>)
         \o extracted_by(Tail(events))

\* a query that failed: its search raised, or the processing of its results did
failed_query(e) ==
    /\ e.event = "search"
    /\ \/ e.outcome.raised
       \/ \E k \in 1..Len(e.outcome.results) :
             k <= 5 /\ "not_a_dict" \in DOMAIN e.outcome.results[k]

\* C24: a failure of the search or of the processing of a query does not abort
\* discovery: while the loop runs the queries searched so far are the first of
\* the generated sequence, in order, and once every query has had its turn the
\* call returns with all of them searched and with the deduplicated candidates
\* of every fetch that was made.
C24_DiscoveryFailureIsolation ==
    fn_ret.called =>
        /\ queries_of(fn_ret.log) =
              SubSeq(generate_search_queries(fn_args.state_name), 1, fn_ret.q - 1)
        /\ fn_ret.pc = "returned" =>
              /\ queries_of(fn_ret.log) = generate_search_queries(fn_args.state_name)
              /\ fn_ret.unique_tests =
                    deduplicate_tests(extracted_by(fn_ret.log))

\* C24 witness: a call returned in which a search raised, a later query's
\* processing raised after a fetch, and the candidates of that fetch and of a
\* still later query are in the result
C24_Witness ==
    /\ fn_ret.called
    /\ fn_ret.pc = "returned"
    /\ \E p, x \in search_positions(fn_ret.log) :
          /\ p < x
          /\ fn_ret.log[p].outcome.raised
          /\ ~fn_ret.log[x].outcome.raised
          /\ failed_query(fn_ret.log[x])
          /\ Len(fetched_for(fn_ret.log, x)) = 1
          /\ x < Len(fn_ret.log) - 2
    /\ Len(fn_ret.unique_tests) = 3

\* C25: the inter-query delay occurs between every two consecutive searches,
\* whatever the outcome of the earlier one.
C25_DelayBetweenSearches ==
    fn_ret.called =>
        \A p, x \in search_positions(fn_ret.log) :
            p < x => \E s \in (p + 1)..(x - 1) : fn_ret.log[s].event = "sleep"

-----------------------------------------------------------------------------
(* DiscoveryEngine._parse_objectives_from_content and _looks_like_objective *)

\* content.split('\n'), on the characters: the pieces between the newlines
newlines(cs) == { k \in 1..Len(cs) : cs[k] = "\n" }

\* the position of the m-th newline; 0 for m = 0, Len(cs) + 1 past the last
nth_newline(cs, m) ==
    IF m = 0 THEN 0
    ELSE IF m > Cardinality(newlines(cs)) THEN Len(cs) + 1
    ELSE CHOOSE p \in newlines(cs) :
             Cardinality({ q \in newlines(cs) : q <= p }) = m

split_lines(cs) ==
    [ m \in 1..(Cardinality(newlines(cs)) + 1) |->
        SubSeq(cs, nth_newline(cs, m - 1) + 1, nth_newline(cs, m) - 1) ]

\* str.strip(), on the characters
strip(cs) ==
    LET inked == { k \in 1..Len(cs) : ~IsSpace(cs[k]) }
    IN  IF inked = {} THEN <<>>
        ELSE SubSeq(cs, CHOOSE k \in inked : \A q \in inked : k <= q,
                        CHOOSE k \in inked : \A q \in inked : q <= k)

\* if len(text.split()) < 6: return False
MIN_OBJECTIVE_WORDS == 6

\* the action_verbs of _looks_like_objective
objective_action_verbs == <<
    "understand", "demonstrate", "apply", "analyze", "evaluate",
    "identify", "explain", "describe", "compare", "create",
    "develop", "design", "implement", "use", "integrate" >>

\* any(verb in text_lower for verb in action_verbs)
has_action_verb(cs) == ContainsAny(Lower(cs), objective_action_verbs)

\* the character class [\d\.\)\-\*\•]; the bullet U+2022 is not a character
\* of any input of the model
IsMarkerChar(c) == IsDigit(c) \/ c \in {".", ")", "-", "*"}

\* bool(re.match(r'^[\d\.\)\-\*\•]+\s+', text))
has_marker(cs) ==
    \E n \in 1..(Len(cs) - 1) :
        /\ \A k \in 1..n : IsMarkerChar(cs[k])
        /\ IsSpace(cs[n + 1])

\* mutant of looks_like_objective: no minimum number of words
looks_like_objective_any_length(cs) == has_action_verb(cs) \/ has_marker(cs)

\* _looks_like_objective(text)
looks_like_objective(cs) ==
    IF WordCount(cs) < MIN_OBJECTIVE_WORDS THEN FALSE
    ELSE has_action_verb(cs) \/ has_marker(cs)

\* if not line or len(line) < 10: continue
MIN_LINE_LENGTH == 10

\* line[:200]
EXCERPT_LENGTH == 200

\* 'confidence': 1.0, in hundredths
CONF_VERIFIED == 100

\* the dict appended for an accepted line
parsed_objective(index, line, url) ==
    [ objective_index   |-> index,
      objective_text    |-> StrOf(line),
      evidence_excerpt  |-> StrOf(Prefix(line, EXCERPT_LENGTH)),
      evidence_url      |-> url,
      is_inferred       |-> FALSE,
      confidence        |-> CONF_VERIFIED,
      validation_status |-> "verified" ]

\* the loop "for line in lines" from the k-th line on
RECURSIVE parse_lines(_, _, _, _)
parse_lines(lines, k, url, objs) ==
    IF k > Len(lines) THEN objs
    ELSE LET line == strip(lines[k])
         IN  IF line = <<>> \/ Len(line) < MIN_LINE_LENGTH
             THEN parse_lines(lines, k + 1, url, objs)
             ELSE IF looks_like_objective(line)
             THEN parse_lines(lines, k + 1, url,
                      Append(objs, parsed_objective(Len(objs), line, url)))
             ELSE parse_lines(lines, k + 1, url, objs)

\* _parse_objectives_from_content(content, url, test_info, logger), the content
\* given by its characters
parse_objectives_from_content(content, url) ==
    parse_lines(split_lines(content), 1, url, <<>>)

(* Calls of _parse_objectives_from_content on pages of a few lines *)

\* a page has at most this many lines
MaxLines == 3

LineInputs ==
    { "", "Objectives",
      "  1. Understand the development of young children  ",
      "Teachers demonstrate knowledge of content",
      "- Plans lessons for all students\t",
      "The museum is closed on every Monday",
      "The test has two parts and four hours",
      "(1) Tests are given in the spring",
      "a b c d e f", "1 b c d e f", "* a b c d",
      "2)Apply the rules of grammar and usage" }

\* '\n'.join(lines), on the characters
RECURSIVE join_lines(_)
join_lines(lines) ==
    IF lines = <<>> THEN <<>>
    ELSE IF Len(lines) = 1 THEN Chars(lines[1])
    ELSE Chars(lines[1]) \o <<"\n">> \o join_lines(Tail(lines))

ContentInputs ==
    { join_lines(ls) :
        ls \in UNION { [1..n -> LineInputs] : n \in 0..MaxLines } }

ParseInit ==
    /\ PipelineInit
    /\ fn_args \in [content : ContentInputs, url : {UrlEdu}]
    /\ fn_ret = NotCalled

\* objectives = self._parse_objectives_from_content(content, url, test_info, logger)
CallParseObjectivesFromContent ==
    /\ ~fn_ret.called
    /\ fn_ret' = [ called     |-> TRUE,
                   objectives |-> parse_objectives_from_content(
                                      fn_args.content, fn_args.url) ]
    /\ UNCHANGED <<pipeline_vars, fn_args>>

ParseNext == CallParseObjectivesFromContent

ParseSpec == ParseInit /\ [][ParseNext]_vars

\* the stripped lines of a page, in page order
stripped_lines(content) ==
    LET lines == split_lines(content)
    IN  [k \in 1..Len(lines) |-> strip(lines[k])]

\* a line of at least 6 words that contains a verb of the extraction
\* vocabulary or starts with a list marker
qualifies(line) ==
    /\ WordCount(line) >= 6
    /\ has_action_verb(line) \/ has_marker(line)

\* C26: _parse_objectives_from_content emits one objective for exactly the
\* lines of the content that have at least 6 words and contain a verb of the
\* extraction vocabulary or start with a list marker, in encounter order, with
\* objective_index 0..n-1, confidence 1.0, is_inferred false and
\* validation_status 'verified'.
C26_ParseEmitsQualifyingLines ==
    fn_ret.called =>
        LET want == SelectSeq(stripped_lines(fn_args.content), qualifies)
        IN  /\ Len(fn_ret.objectives) = Len(want)
            /\ \A k \in 1..Len(want) :
                  /\ fn_ret.objectives[k].objective_text = StrOf(want[k])
                  /\ fn_ret.objectives[k].objective_index = k - 1
                  /\ fn_ret.objectives[k].confidence = 100
                  /\ fn_ret.objectives[k].is_inferred = FALSE
                  /\ fn_ret.objectives[k].validation_status = "verified"

\* C26 witness: a page of three lines; the first has a marker and six words but
\* no verb, the second a verb but five words, the third a verb and no marker;
\* the first and the third are emitted with indices 0 and 1
C26_Witness ==
    /\ fn_ret.called
    /\ fn_args.content = join_lines(<< "- Plans lessons for all students\t",
                                       "Teachers demonstrate knowledge of content",
                                       "The museum is closed on every Monday" >>)
    /\ Len(fn_ret.objectives) = 2
    /\ fn_ret.objectives[1].objective_text = "- Plans lessons for all students"
    /\ fn_ret.objectives[2].objective_text = "The museum is closed on every Monday"
    /\ fn_ret.objectives[2].objective_index = 1

-----------------------------------------------------------------------------
(* enhance_confidence in the arithmetic of Python floats (IEEE 754 doubles) *)

\* A double between 0 and 4 is a whole number of units of 2^-56 (every double
\* from 2^-4 on is a multiple of 2^-56). The number is kept as <<hi, lo>>,
\* hi * 2^28 + lo with 0 <= lo < 2^28, so that no part exceeds 32 bits.
F64_BASE == 268435456

f64_norm(hi, lo) == <<hi + (lo \div F64_BASE), lo % F64_BASE>>

\* the distance, in units, between neighbouring doubles at a number with this
\* high part: 53 significant bits, so 2 from 2^-3 on, 4 from 2^-2 on, 8 from
\* 2^-1 on, 16 from 1 on, 32 from 2 on
f64_spacing(hi) ==
    IF hi >= 536870912 THEN 32
    ELSE IF hi >= 268435456 THEN 16
    ELSE IF hi >= 134217728 THEN 8
    ELSE IF hi >= 67108864 THEN 4
    ELSE IF hi >= 33554432 THEN 2
    ELSE 1

\* mutant of f64_round: exact arithmetic, nothing is rounded
f64_round_exact(x) == x

\* round to the nearest double, ties to the even one
f64_round(x) ==
    LET s    == f64_spacing(x[1])
        r    == x[2] % s
        low  == x[2] - r
    IN  IF 2 * r < s THEN <<x[1], low>>
        ELSE IF 2 * r > s THEN f64_norm(x[1], low + s)
        ELSE IF (low \div s) % 2 = 0 THEN <<x[1], low>>
        ELSE f64_norm(x[1], low + s)

\* x + y of two floats
f64_add(x, y) == f64_round(f64_norm(x[1] + y[1], x[2] + y[2]))

\* n * x of an int (at most 7) and a float
f64_times(n, x) == f64_round(f64_norm(n * x[1], n * x[2]))

f64_le(x, y) == x[1] < y[1] \/ (x[1] = y[1] /\ x[2] <= y[2])

\* min(x, y)
f64_min(x, y) == IF f64_le(x, y) THEN x ELSE y

\* the float literals: 0.1 is 0x1.999999999999ap-4, 0.3 is 0x1.3333333333333p-2
F64_BOOST_PER_SOURCE == <<26843545, 161061274>>

F64_MAX_BOOST == <<80530636, 214748364>>

F64_ONE == <<268435456, 0>>

\* boost = min(len(supporting_evidence) * 0.1, 0.3)
f64_boost_of(supporting_evidence) ==
    f64_min(f64_times(Len(supporting_evidence), F64_BOOST_PER_SOURCE),
            F64_MAX_BOOST)

\* min(obj['confidence'] + boost, 1.0)
f64_boosted_confidence(confidence, boost) ==
    f64_min(f64_add(confidence, boost), F64_ONE)

\* enhance_confidence on objectives whose confidence is a float
f64_enhance_confidence(objs, supporting_evidence) ==
    [ k \in 1..Len(objs) |->
        LET obj == objs[k]
        IN  IF obj.is_inferred /\ supporting_evidence # <<>>
            THEN [obj EXCEPT
                    !.confidence = f64_boosted_confidence(obj.confidence,
                                        f64_boost_of(supporting_evidence)),
                    !.rationale  = obj.rationale \o " | Supported by "
                                     \o IntToStr(Len(supporting_evidence))
                                     \o " additional source(s)"]
            ELSE obj ]

(* enhance_confidence called twice on one objective, in both orders of the *)
(* two evidence lists                                                      *)

\* the confidences the engine gives inferred objectives, as floats:
\* 0.4, 0.6, 0.65, 0.7 and 0.75
F64ConfidenceInputs ==
    { <<107374182, 107374184>>, <<161061273, 161061272>>,
      <<174483046, 107374184>>, <<187904819, 53687088>>, <<201326592, 0>> }

F64ObjectiveInputs ==
    { [is_inferred |-> TRUE, confidence |-> c,
       rationale |-> "Synthesized from state curriculum standards aligned with test"] :
        c \in F64ConfidenceInputs }
    \cup
    { [is_inferred |-> FALSE, confidence |-> F64_ONE, rationale |-> None] }

OrderInit ==
    /\ PipelineInit
    /\ fn_args \in [ objective : F64ObjectiveInputs,
                     evidence_a : { EvidencePool(n) : n \in 0..MaxSources },
                     evidence_b : { EvidencePool(n) : n \in 0..MaxSources } ]
    /\ fn_ret = NotCalled

\* the next call of enhance_confidence on each of two copies of the objective:
\* one gets evidence_a first and evidence_b second, the other the reverse
CallEnhanceInBothOrders ==
    LET applied == IF fn_ret.called THEN fn_ret.applications ELSE 0
        a_then_b == IF fn_ret.called THEN fn_ret.a_then_b
                    ELSE <<fn_args.objective>>
        b_then_a == IF fn_ret.called THEN fn_ret.b_then_a
                    ELSE <<fn_args.objective>>
    IN  /\ applied < 2
        /\ fn_ret' = [ called       |-> TRUE,
                       applications |-> applied + 1,
                       a_then_b     |-> f64_enhance_confidence(a_then_b,
                                           IF applied = 0 THEN fn_args.evidence_a
                                           ELSE fn_args.evidence_b),
                       b_then_a     |-> f64_enhance_confidence(b_then_a,
                                           IF applied = 0 THEN fn_args.evidence_b
                                           ELSE fn_args.evidence_a) ]
        /\ UNCHANGED <<pipeline_vars, fn_args>>

OrderNext == CallEnhanceInBothOrders

OrderSpec == OrderInit /\ [][OrderNext]_vars

\* C27: the confidence after two calls of enhance_confidence depends on the
\* order of the calls: there are evidence lists A and B and a starting
\* confidence for which A then B gives another confidence than B then A,
\* namely an inferred objective of confidence 0.7, one supporting URL in one
\* list and two in the other.
C27_OrderDependent ==
    ( /\ fn_ret.called
      /\ fn_ret.applications = 2
      /\ fn_args.objective.is_inferred
      /\ fn_args.objective.confidence = <<187904819, 53687088>>
      /\ {Len(fn_args.evidence_a), Len(fn_args.evidence_b)} = {1, 2} )
    => fn_ret.a_then_b[1].confidence # fn_ret.b_then_a[1].confidence

\* C27 witness: both orders were applied to an inferred objective of
\* confidence 0.7 with one and with two supporting URLs; one order ended at
\* 1.0, the other below it
C27_Witness ==
    /\ fn_ret.called
    /\ fn_ret.applications = 2
    /\ fn_args.objective.is_inferred
    /\ fn_args.objective.confidence = <<187904819, 53687088>>
    /\ Len(fn_args.evidence_a) = 1
    /\ Len(fn_args.evidence_b) = 2
    /\ fn_ret.a_then_b[1].confidence = F64_ONE
    /\ fn_ret.b_then_a[1].confidence # F64_ONE

\* the confidences of the two orders never differ by more than two units of
\* 2^-56 times the spacing of doubles below 1.0, i.e. by rounding alone
OrdersDifferByRoundingOnly ==
    (fn_ret.called /\ fn_ret.applications = 2) =>
        LET x == fn_ret.a_then_b[1].confidence
            y == fn_ret.b_then_a[1].confidence
            d == (x[1] - y[1]) * F64_BASE + (x[2] - y[2])
        IN  (x[1] - y[1]) \in {-1, 0, 1} /\ d \in -16..16

-----------------------------------------------------------------------------
(* scripts/inference.py: InferenceEngine.synthesize_from_standards *)

\* len(line) > 20
MIN_STANDARD_LENGTH == 20

\* line[:200]
STANDARD_EXCERPT_LENGTH == 200

\* 'confidence': 0.65, in hundredths
CONF_SYNTHESIZED == 65

synthesis_verbs == << "understand", "demonstrate", "apply" >>

\* len(line) > 20 and any(verb in line.lower() for verb in [...])
is_standard_line(line) ==
    /\ Len(line) > MIN_STANDARD_LENGTH
    /\ ContainsAny(Lower(line), synthesis_verbs)

\* the dict appended for an accepted line
synthesized_objective(idx, line, test_info) ==
    [ objective_index   |-> idx,
      objective_text    |-> StrOf(line),
      evidence_excerpt  |-> StrOf(Prefix(line, STANDARD_EXCERPT_LENGTH)),
      evidence_url      |-> Get(test_info, "official_source_url", None),
      is_inferred       |-> TRUE,
      confidence        |-> CONF_SYNTHESIZED,
      rationale         |-> "Synthesized from state curriculum standards aligned with test",
      validation_status |-> "partial" ]

\* the loop "for line in lines" from the k-th line on
RECURSIVE synthesize_lines(_, _, _, _)
synthesize_lines(lines, k, test_info, synthesized) ==
    IF k > Len(lines) THEN synthesized
    ELSE LET line == strip(lines[k])
         IN  IF is_standard_line(line)
             THEN synthesize_lines(lines, k + 1, test_info,
                      Append(synthesized,
                             synthesized_objective(Len(synthesized), line, test_info)))
             ELSE synthesize_lines(lines, k + 1, test_info, synthesized)

\* synthesize_from_standards(state_standards, test_info), the standards given
\* by their characters
synthesize_from_standards(state_standards, test_info) ==
    synthesize_lines(split_lines(state_standards), 1, test_info, <<>>)

(* Calls of synthesize_from_standards on standards of a few lines *)

StandardLineInputs ==
    { "", "Understand sets",
      "Apply the four rules", "Apply the four rules.",
      "  Students understand fractions  ",
      "DEMONSTRATE number sense and more",
      "Students will read two novels this year" }

StandardsInputs ==
    { join_lines(ls) :
        ls \in UNION { [1..n -> StandardLineInputs] : n \in 0..MaxLines } }

SynthesizeInit ==
    /\ PipelineInit
    /\ fn_args \in [ state_standards : StandardsInputs,
                     test_info : { [test_name |-> "Physics"],
                                   [test_name |-> "Physics",
                                    official_source_url |-> UrlEdu] } ]
    /\ fn_ret = NotCalled

\* synthesized = synthesize_from_standards(state_standards, test_info)
CallSynthesizeFromStandards ==
    /\ ~fn_ret.called
    /\ fn_ret' = [ called      |-> TRUE,
                   synthesized |-> synthesize_from_standards(
                                       fn_args.state_standards, fn_args.test_info) ]
    /\ UNCHANGED <<pipeline_vars, fn_args>>

SynthesizeNext == CallSynthesizeFromStandards

SynthesizeSpec == SynthesizeInit /\ [][SynthesizeNext]_vars

\* a line of at least 20 characters that contains 'understand', 'demonstrate'
\* or 'apply', whatever the case
standard_as_claimed(line) ==
    /\ Len(line) >= 20
    /\ \/ Contains(Lower(line), Chars("understand"))
       \/ Contains(Lower(line), Chars("demonstrate"))
       \/ Contains(Lower(line), Chars("apply"))

\* C28: synthesize_from_standards emits an objective for exactly the stripped
\* lines of the input that have at least 20 characters and contain
\* 'understand', 'demonstrate' or 'apply' (case-insensitive), a line of exactly
\* 20 characters included, each with confidence 0.65, validation_status
\* 'partial' and indices 0..n-1 in encounter order.
C28_SynthesizeAtLeastTwenty ==
    fn_ret.called =>
        LET want == SelectSeq(stripped_lines(fn_args.state_standards),
                              standard_as_claimed)
        IN  /\ Len(fn_ret.synthesized) = Len(want)
            /\ \A k \in 1..Len(want) :
                  /\ fn_ret.synthesized[k].objective_text = StrOf(want[k])
                  /\ fn_ret.synthesized[k].objective_index = k - 1
                  /\ fn_ret.synthesized[k].confidence = 65
                  /\ fn_ret.synthesized[k].validation_status = "partial"

\* a line of more than 20 characters with one of the three verbs
standard_longer_than_twenty(line) ==
    Len(line) > 20 /\ standard_as_claimed(line)

\* What the code does instead: the lines emitted are the stripped lines of
\* MORE than 20 characters with one of the verbs; the rest of the claim holds.
SynthesizesLinesLongerThanTwenty ==
    fn_ret.called =>
        LET want == SelectSeq(stripped_lines(fn_args.state_standards),
                              standard_longer_than_twenty)
        IN  /\ Len(fn_ret.synthesized) = Len(want)
            /\ \A k \in 1..Len(want) :
                  /\ fn_ret.synthesized[k].objective_text = StrOf(want[k])
                  /\ fn_ret.synthesized[k].objective_index = k - 1
                  /\ fn_ret.synthesized[k].confidence = 65
                  /\ fn_ret.synthesized[k].validation_status = "partial"

\* the standards are the one line 'Apply the four rules' of exactly 20
\* characters, and nothing is emitted
TwentyCharacterLineDropped ==
    /\ fn_ret.called
    /\ fn_args.state_standards = Chars("Apply the four rules")
    /\ Len(fn_args.state_standards) = 20
    /\ fn_ret.synthesized = <<>>

-----------------------------------------------------------------------------
(* scripts/validation.py: ValidationEngine.assign_validation_status, *)
(* applied to what the three producers of objectives emit            *)

\* if confidence >= 0.7, in hundredths
PARTIAL_CONFIDENCE == 70

\* assign_validation_status(objective)
assign_validation_status(objective) ==
    IF "is_inferred" \in DOMAIN objective /\ objective.is_inferred = TRUE
    THEN IF Get(objective, "confidence", 0) >= PARTIAL_CONFIDENCE
         THEN "partial"
         ELSE "inferred"
    ELSE IF "evidence_url" \in DOMAIN objective
            /\ objective.evidence_url \notin {None, ""}
         THEN "verified"
         ELSE "partial"

(* One call of one of the producers: infer_objectives,               *)
(* synthesize_from_standards or _parse_objectives_from_content       *)

ProducerInit ==
    /\ PipelineInit
    /\ fn_args \in
          [test_info : TestInfoInputs, confidence_threshold : ThresholdInputs]
          \cup [ state_standards : StandardsInputs,
                 test_info : { [test_name |-> "Physics"],
                               [test_name |-> "Physics",
                                official_source_url |-> UrlEdu] } ]
          \cup [content : ContentInputs, url : {UrlEdu}]
    /\ fn_ret = NotCalled

ProduceByInference ==
    /\ "confidence_threshold" \in DOMAIN fn_args
    /\ CallInferObjectives

ProduceBySynthesis ==
    /\ "state_standards" \in DOMAIN fn_args
    /\ CallSynthesizeFromStandards

ProduceByParsing ==
    /\ "content" \in DOMAIN fn_args
    /\ CallParseObjectivesFromContent

ProducerNext == ProduceByInference \/ ProduceBySynthesis \/ ProduceByParsing

ProducerSpec == ProducerInit /\ [][ProducerNext]_vars

\* the objectives the call produced
produced ==
    IF "confidence_threshold" \in DOMAIN fn_args
    THEN IF fn_ret.result.raised THEN <<>> ELSE fn_ret.result.value
    ELSE IF "state_standards" \in DOMAIN fn_args THEN fn_ret.synthesized
    ELSE fn_ret.objectives

\* C29: every objective produced by infer_objectives,
\* synthesize_from_standards or _parse_objectives_from_content carries the
\* validation_status that assign_validation_status returns for it.
C29_StatusConsistentAcrossProducers ==
    fn_ret.called =>
        \A k \in 1..Len(produced) :
            produced[k].validation_status = assign_validation_status(produced[k])

\* What holds instead: the status of a parsed objective and of an inferred
\* objective of confidence below 0.7 from infer_objectives is the one
\* assign_validation_status returns; every synthesized objective is 'partial'
\* where assign_validation_status returns 'inferred', and every objective of
\* infer_objectives with confidence 0.7 or more is 'inferred' where it returns
\* 'partial'.
StatusOfProducers ==
    fn_ret.called =>
        \A k \in 1..Len(produced) :
            IF "state_standards" \in DOMAIN fn_args
            THEN /\ produced[k].validation_status = "partial"
                 /\ assign_validation_status(produced[k]) = "inferred"
            ELSE IF "confidence_threshold" \in DOMAIN fn_args
                    /\ produced[k].confidence >= 70
            THEN /\ produced[k].validation_status = "inferred"
                 /\ assign_validation_status(produced[k]) = "partial"
            ELSE produced[k].validation_status
                     = assign_validation_status(produced[k])

\* infer_objectives returned an objective of confidence 0.75 with status
\* 'inferred'
InferredStatusAtHighConfidence ==
    /\ fn_ret.called
    /\ "confidence_threshold" \in DOMAIN fn_args
    /\ Len(produced) > 0
    /\ produced[1].confidence = 75
    /\ produced[1].validation_status = "inferred"

-----------------------------------------------------------------------------
(* src/api/main.py: GET /states/{state_name}, get_state_data *)

\* the classes an "except Exception" clause catches: HTTPException (fastapi,
\* a subclass of starlette's, which derives from Exception) as well as the
\* errors of open, json.loads and the pydantic models
ExceptionSubclasses ==
    { "HTTPException", "OSError", "JSONDecodeError", "ValidationError", "TypeError" }

Raise(e) == [raised |-> TRUE, exc |-> e]

Return(v) == [raised |-> FALSE, value |-> v]

\* HTTPException(status_code=..., detail=...)
HTTPException(status_code, detail) ==
    [type |-> "HTTPException", status_code |-> status_code, detail |-> detail]

HTTP_NOT_FOUND == 404

HTTP_SERVER_ERROR == 500

\* str(e), left uninterpreted: the text depends on the library's version
str_of(e) == [str_of |-> e]

\* the keys a pydantic model requires, and its optional keys, which default
\* to None; keys the model does not declare are ignored
model_of(data, required, optional) ==
    IF \E k \in required : k \notin DOMAIN data
    THEN Raise([type |-> "ValidationError"])
    ELSE Return([ k \in required \cup optional |-> Get(data, k, None) ])

\* class Objective(BaseModel)
Objective(data) ==
    model_of(data,
             {"index", "text", "is_inferred", "confidence", "rationale",
              "validation_status"},
             {"evidence_url"})

\* class TestInfo(BaseModel)
TestInfo(data) ==
    model_of(data,
             {"test_name", "test_system", "subject_area", "grade_band",
              "provider", "scraped_at"},
             {"test_code", "official_source_url", "source_last_updated"})

\* class StateTestData(BaseModel), StateTestData(**data); data that is no
\* dict cannot be unpacked
StateTestData(data) ==
    IF "not_a_dict" \in DOMAIN data THEN Raise([type |-> "TypeError"])
    ELSE IF {"state", "test", "objectives"} \ DOMAIN data # {}
    THEN Raise([type |-> "ValidationError"])
    ELSE IF TestInfo(data.test).raised
    THEN Raise([type |-> "ValidationError"])
    ELSE IF \E k \in 1..Len(data.objectives) : Objective(data.objectives[k]).raised
    THEN Raise([type |-> "ValidationError"])
    ELSE Return([ state      |-> data.state,
                  test       |-> TestInfo(data.test).value,
                  objectives |-> [ k \in 1..Len(data.objectives) |->
                                     Objective(data.objectives[k]).value ] ])

\* a line of the file: blank, or what json.loads makes of it
BlankLine == [blank |-> TRUE]

JsonLine(value) == [blank |-> FALSE, loads |-> Return(value)]

NotJsonLine == [blank |-> FALSE, loads |-> Raise([type |-> "JSONDecodeError"])]

\* the loop "for line in f" from the k-th line on
RECURSIVE read_state_file(_, _, _)
read_state_file(lines, k, test_data) ==
    IF k > Len(lines) THEN Return(test_data)
    ELSE IF lines[k].blank THEN read_state_file(lines, k + 1, test_data)
    ELSE IF lines[k].loads.raised THEN lines[k].loads
    ELSE LET parsed == StateTestData(lines[k].loads.value)
         IN  IF parsed.raised THEN parsed
             ELSE read_state_file(lines, k + 1, Append(test_data, parsed.value))

\* the file data/<state_name>.jsonl: absent, present but not readable (open
\* raises OSError), or present with its lines
NoFile == [exists |-> FALSE]

UnreadableFile == [exists |-> TRUE, readable |-> FALSE]

FileOf(lines) == [exists |-> TRUE, readable |-> TRUE, lines |-> lines]

\* the body of the try block
read_state_data(state_name, data_file) ==
    IF ~data_file.exists
    THEN Raise(HTTPException(HTTP_NOT_FOUND,
                             "State " \o state_name \o " not found"))
    ELSE IF ~data_file.readable THEN Raise([type |-> "OSError"])
    ELSE read_state_file(data_file.lines, 1, <<>>)

\* except Exception as e
caught_by_handler(e) == e.type \in ExceptionSubclasses

\* get_state_data(state_name): the response of the endpoint; an exception the
\* handler does not catch would leave the function as it is
get_state_data(state_name, data_file) ==
    LET body == read_state_data(state_name, data_file)
    IN  IF ~body.raised
        THEN [status_code |-> HTTP_OK, content |-> body.value]
        ELSE IF caught_by_handler(body.exc)
        THEN [status_code |-> HTTP_SERVER_ERROR, detail |-> str_of(body.exc)]
        ELSE [status_code |-> body.exc.status_code, detail |-> body.exc.detail]

(* Requests to GET /states/{state_name} against files of a few lines *)

\* a file has at most this many lines
MaxFileLines == 3

ObjectiveRecord ==
    [ index |-> 0, text |-> "Demonstrate knowledge of child development stages",
      evidence_url |-> None, is_inferred |-> TRUE, confidence |-> 75,
      rationale |-> "Inferred from subject template", validation_status |-> "inferred" ]

\* an objective as _parse_objectives_from_content emits it, without rationale
ObjectiveWithoutRationale ==
    [ index |-> 0, text |-> "1. Understand the development of young children",
      evidence_url |-> UrlEdu, is_inferred |-> FALSE, confidence |-> 100,
      validation_status |-> "verified" ]

TestRecord ==
    [ test_name |-> "Physics", test_system |-> "Praxis", subject_area |-> "Science",
      grade_band |-> "7-12", provider |-> "ETS", scraped_at |-> "2024-01-01T00:00:00" ]

FileLineInputs ==
    { BlankLine, NotJsonLine,
      JsonLine(NotADict),
      JsonLine([state |-> "Alabama", test |-> TestRecord,
                objectives |-> <<ObjectiveRecord>>]),
      JsonLine([state |-> "Alabama", test |-> TestRecord, objectives |-> <<>>]),
      JsonLine([state |-> "Alabama", objectives |-> <<>>]),
      JsonLine([state |-> "Alabama", test |-> TestRecord,
                objectives |-> <<ObjectiveWithoutRationale>>]) }

DataFileInputs ==
    { NoFile, UnreadableFile }
    \cup { FileOf(ls) :
             ls \in UNION { [1..n -> FileLineInputs] : n \in 0..MaxFileLines } }

ApiInit ==
    /\ PipelineInit
    /\ fn_args \in [state_name : StateNameInputs, data_file : DataFileInputs]
    /\ fn_ret = NotCalled

\* GET /states/{state_name}
CallGetStateData ==
    /\ ~fn_ret.called
    /\ fn_ret' = [ called   |-> TRUE,
                   response |-> get_state_data(fn_args.state_name,
                                               fn_args.data_file) ]
    /\ UNCHANGED <<pipeline_vars, fn_args>>

ApiNext == CallGetStateData

ApiSpec == ApiInit /\ [][ApiNext]_vars

\* C30: get_state_data responds with status 404 when the requested unit has no
\* output file, and with status 500 only when reading or parsing an existing
\* file fails; a missing file is never reported as 500.
C30_MissingFileIs404 ==
    fn_ret.called =>
        /\ ~fn_args.data_file.exists => fn_ret.response.status_code = 404
        /\ fn_ret.response.status_code = 500 => fn_args.data_file.exists

\* What the code does instead: a missing file is answered with 500, whose
\* detail is str() of the 404 exception; 404 is never the status; an existing
\* file is answered with 200 or, when open, json.loads or the models fail, 500.
MissingFileAnsweredWith500 ==
    fn_ret.called =>
        /\ fn_ret.response.status_code \in {200, 500}
        /\ ~fn_args.data_file.exists =>
              /\ fn_ret.response.status_code = 500
              /\ fn_ret.response.detail.str_of.type = "HTTPException"
              /\ fn_ret.response.detail.str_of.status_code = 404
        /\ (fn_args.data_file.exists /\ fn_ret.response.status_code = 500) =>
              fn_ret.response.detail.str_of.type
                  \in {"OSError", "JSONDecodeError", "ValidationError", "TypeError"}

\* a request for a state without file was answered with 500
MissingFileRequested ==
    /\ fn_ret.called
    /\ fn_args.data_file = NoFile
    /\ fn_ret.response.status_code = 500


=============================================================================
